---- MODULE Spec2Model ----
(***************************************************************************)
(* Model of the input decoders of neutuino: the Unix byte decoder          *)
(* (src/src/unix_input.rs) and the Windows console record translator       *)
(* (src/src/windows_input.rs).                                             *)
(*                                                                         *)
(* parse_event(item, iter) is a function of the first byte and of the      *)
(* answers the byte iterator gives to the successive iter.next() calls.    *)
(* The iterator is modelled by the sequence `src` of its answers: a byte   *)
(* 0..255 is Some(Ok(b)), NoByte is None (nothing readable at the moment   *)
(* of the read), IoErr is Some(Err(_)).  Past the end of `src` the         *)
(* iterator answers None for ever.                                         *)
(***************************************************************************)
EXTENDS Integers, Sequences, FiniteSets, TLC

VARIABLES
    string,           \* test_parse_utf8: the characters of `string` (scalar values)
    src,              \* the answers of the byte iterator, in order
    pos,              \* index in src of the next answer the iterator gives
    last,             \* the last call: its first byte, where it started, its result
    decoded,          \* the characters test_parse_utf8 has decoded so far
    target_os,        \* cfg(unix) or cfg(windows): which poll_input is compiled
                      \* (for the raw-mode functions of unix.rs: linux or macos)
    records,          \* Windows: the input records waiting in the console buffer
    events,           \* the encodings of events that, one after the other, are src
    returned,         \* what the poll_input calls on that stream returned, in order
    timeout,          \* the caller's timeout in milliseconds: <<ms div 2^16, ms mod 2^16>>
    waited,           \* the timeout-bounded waits the last poll_input call issued
    handler,          \* the Handler or RawModeHandler that is alive: its `enabled`
    calls,            \* the calls of func and of the raw-mode functions, in order
    stdin_attrs,      \* the terminal attributes of stdin (what tcgetattr reads)
    TERMIOS           \* unix.rs: the lazily initialised static TERMIOS

vars == <<string, src, pos, last, decoded, target_os, records, events, returned,
          timeout, waited, handler, calls, stdin_attrs, TERMIOS>>

-----------------------------------------------------------------------------
(* Bounds of the model *)

MaxChars == 2        \* characters in the string of test_parse_utf8
MaxBytes == 5        \* answers of the iterator in a direct parse_utf8_char call
MaxTail  == 2        \* answers that follow the sequence under decoding
MaxFields == 3       \* decimal fields of a numbered sequence
MaxEvents == 2       \* events whose encodings make up a stream
MaxCalls == 4        \* calls a handler makes of func or of the raw-mode functions

\* A timeout of 100 ms
DefaultTimeout == <<0, 100>>

\* TERMIOS before its first dereference
Uninit == [kind |-> "Uninit", termios |-> {}]

\* No handler: none constructed yet, or the last one was dropped
NoHandler == [kind |-> "None", enabled |-> FALSE]

-----------------------------------------------------------------------------
(* The byte iterator *)

NoByte == 0 - 1      \* iter.next() = None
IoErr  == 0 - 2      \* iter.next() = Some(Err(_))

Byte == 0..255

IsByte(x) == x >= 0

\* The answer of the next iter.next() when p answers were already given.
Item(s, p) == IF p <= Len(s) THEN s[p] ELSE NoByte

\* The iterator after that answer; the end of the source stays the end.
Advance(s, p) == IF p <= Len(s) THEN p + 1 ELSE p

RECURSIVE BytesPulled(_, _, _)
\* Number of bytes (not None, not Err) among the answers s[from..to-1].
BytesPulled(s, from, to) ==
    IF from >= to \/ from > Len(s) THEN 0
    ELSE (IF IsByte(s[from]) THEN 1 ELSE 0) + BytesPulled(s, from + 1, to)

-----------------------------------------------------------------------------
(* Bit arithmetic on naturals *)

RECURSIVE Pow2(_)
Pow2(k) == IF k = 0 THEN 1 ELSE 2 * Pow2(k - 1)

\* n & mask = mask, for a mask with the single bit k set
BitSet(n, k) == (n \div Pow2(k)) % 2 = 1

-----------------------------------------------------------------------------
(* Results *)

NoEvent == [type |-> "None", key |-> "None", arg |-> 0, action |-> "None",
            mods |-> [shift |-> FALSE, alt |-> FALSE, ctrl |-> FALSE, meta |-> FALSE],
            button |-> "None", col |-> 0, row |-> 0]

\* io::Result<char> / io::Result<Event> together with the iterator position
\* the call leaves behind.  kind "Panic" is an aborted call (unwrap on None
\* or Err, arithmetic overflow with overflow checks, index out of bounds).
OkChar(c, p)  == [kind |-> "Ok",    ch |-> c, ev |-> NoEvent, err |-> "None", next |-> p]
OkEvent(e, p) == [kind |-> "Ok",    ch |-> 0, ev |-> e,       err |-> "None", next |-> p]
Failure(k, p) == [kind |-> "Err",   ch |-> 0, ev |-> NoEvent, err |-> k,      next |-> p]
Panic(p)      == [kind |-> "Panic", ch |-> 0, ev |-> NoEvent, err |-> "None", next |-> p]

NoCall == [op |-> "none", first |-> NoByte, start |-> 1, res |-> Failure("None", 1)]

-----------------------------------------------------------------------------
(* UTF-8: std::str::from_utf8, str::chars, str::bytes *)

IsCont(b) == b >= 128 /\ b <= 191

\* Length of the well-formed UTF-8 sequence at the head of b, 0 when the head
\* is ill-formed or incomplete (Unicode table 3-7, as core::str validates).
Utf8SeqLen(b) ==
    LET b1 == b[1] IN
    IF b1 < 128 THEN 1
    ELSE IF b1 >= 194 /\ b1 <= 223
    THEN (IF Len(b) >= 2 /\ IsCont(b[2]) THEN 2 ELSE 0)
    ELSE IF b1 >= 224 /\ b1 <= 239
    THEN (IF /\ Len(b) >= 3
             /\ IsCont(b[2])
             /\ (b1 = 224 => b[2] >= 160)
             /\ (b1 = 237 => b[2] <= 159)
             /\ IsCont(b[3])
          THEN 3 ELSE 0)
    ELSE IF b1 >= 240 /\ b1 <= 244
    THEN (IF /\ Len(b) >= 4
             /\ IsCont(b[2])
             /\ (b1 = 240 => b[2] >= 144)
             /\ (b1 = 244 => b[2] <= 143)
             /\ IsCont(b[3])
             /\ IsCont(b[4])
          THEN 4 ELSE 0)
    ELSE 0

RECURSIVE from_utf8_ok(_)
\* std::str::from_utf8(&bytes).is_ok(): the whole buffer is well-formed UTF-8
from_utf8_ok(b) ==
    IF Len(b) = 0 THEN TRUE
    ELSE LET n == Utf8SeqLen(b)
         IN  n > 0 /\ from_utf8_ok(SubSeq(b, n + 1, Len(b)))

\* string.chars().next().unwrap() of a well-formed, non-empty buffer
first_char(b) ==
    LET n == Utf8SeqLen(b) IN
    IF n = 1 THEN b[1]
    ELSE IF n = 2 THEN (b[1] - 192) * 64 + (b[2] - 128)
    ELSE IF n = 3 THEN (b[1] - 224) * 4096 + (b[2] - 128) * 64 + (b[3] - 128)
    ELSE (b[1] - 240) * 262144 + (b[2] - 128) * 4096 + (b[3] - 128) * 64 + (b[4] - 128)

\* The UTF-8 encoding of one scalar value (what str::bytes yields for it)
encode_utf8(c) ==
    IF c < 128 THEN <<c>>
    ELSE IF c < 2048 THEN <<192 + (c \div 64), 128 + (c % 64)>>
    ELSE IF c < 65536
    THEN <<224 + (c \div 4096), 128 + ((c \div 64) % 64), 128 + (c % 64)>>
    ELSE <<240 + (c \div 262144), 128 + ((c \div 4096) % 64),
           128 + ((c \div 64) % 64), 128 + (c % 64)>>

RECURSIVE str_bytes(_)
\* string.bytes(): the concatenated encodings of the characters
str_bytes(s) ==
    IF Len(s) = 0 THEN <<>> ELSE encode_utf8(Head(s)) \o str_bytes(Tail(s))

-----------------------------------------------------------------------------
(* parse_utf8_char *)

\* The number of rounds of the loop `for _ in 1..=4`
Utf8RoundsShort == 4 - 1
Utf8Rounds == 4

\* `iter.next().ok_or_else(error)?`: the answer None is the InvalidData error
utf8_no_byte_lossy(p) == OkChar(65533, p)
utf8_no_byte(p) == Failure("InvalidData", p)

RECURSIVE Utf8Loop(_, _, _, _)
\* One round of the loop with `round - 1` rounds done: test the buffer, and
\* pull one more byte when it is not yet valid.
Utf8Loop(bytes, s, p, round) ==
    IF round > Utf8Rounds THEN Failure("InvalidData", p)
    ELSE IF from_utf8_ok(bytes) THEN OkChar(first_char(bytes), p)
    ELSE LET it == Item(s, p) IN
         IF it = NoByte THEN utf8_no_byte(Advance(s, p))
         ELSE IF it = IoErr THEN Failure("Io", Advance(s, p))
         ELSE Utf8Loop(Append(bytes, it), s, Advance(s, p), round + 1)

parse_utf8_char(c, s, p) == Utf8Loop(<<c>>, s, p, 1)

-----------------------------------------------------------------------------
(* The event model (crate::input) *)

NONE == [shift |-> FALSE, alt |-> FALSE, ctrl |-> FALSE, meta |-> FALSE]

\* Modifiers::new(shift, alt, ctrl)
Modifiers_new(shift, alt, ctrl) ==
    [shift |-> shift, alt |-> alt, ctrl |-> ctrl, meta |-> FALSE]

\* Key::Char(c), Key::F(n) carry an argument; the named keys carry 0
Key(name, arg) == [name |-> name, arg |-> arg]

\* Event::Key(key, action, mods)
KeyEvent(k, action, mods) ==
    [type |-> "Key", key |-> k.name, arg |-> k.arg, action |-> action,
     mods |-> mods, button |-> "None", col |-> 0, row |-> 0]

\* Event::Mouse(mods, button, action, column, row)
MouseEvent(mods, button, action, cx, cy) ==
    [type |-> "Mouse", key |-> "None", arg |-> 0, action |-> action,
     mods |-> mods, button |-> button, col |-> cx, row |-> cy]

\* key_helper(mods, key): a Press of key; the letters S, A, C of the string
\* select shift, alt, ctrl (the string is given as the set of its letters)
key_helper(letters, k) ==
    KeyEvent(k, "Press",
             [shift |-> "S" \in letters, alt |-> "A" \in letters,
              ctrl |-> "C" \in letters, meta |-> FALSE])

\* simple_key(key, shift, alt, ctrl): a Press of key with these modifiers
simple_key(k, shift, alt, ctrl) ==
    KeyEvent(k, "Press", Modifiers_new(shift, alt, ctrl))

\* The code points below 0x800 with the Unicode property Uppercase (the table
\* of char::is_uppercase; Unicode 14): Basic Latin, Latin-1, Latin Extended,
\* IPA, Greek and Coptic, Cyrillic, Armenian
Uppercase ==
    (65..90) \cup (192..214) \cup (216..222) \cup (393..395) \cup (398..401) \cup (406..408)
    \cup (433..435) \cup (502..504) \cup (579..582) \cup (904..906) \cup (913..929) \cup (931..939) \cup (978..980) \cup (1021..1071) \cup (1329..1366)
    \cup {256, 258, 260, 262, 264, 266, 268, 270, 272, 274, 276, 278, 280,
          282, 284, 286, 288, 290, 292, 294, 296, 298, 300, 302, 304, 306,
          308, 310, 313, 315, 317, 319, 321, 323, 325, 327, 330, 332, 334,
          336, 338, 340, 342, 344, 346, 348, 350, 352, 354, 356, 358, 360,
          362, 364, 366, 368, 370, 372, 374, 376, 377, 379, 381, 385, 386,
          388, 390, 391, 403, 404, 412, 413, 415, 416, 418, 420, 422, 423,
          425, 428, 430, 431, 437, 439, 440, 444, 452, 455, 458, 461, 463,
          465, 467, 469, 471, 473, 475, 478, 480, 482, 484, 486, 488, 490,
          492, 494, 497, 500, 506, 508, 510, 512, 514, 516, 518, 520, 522,
          524, 526, 528, 530, 532, 534, 536, 538, 540, 542, 544, 546, 548,
          550, 552, 554, 556, 558, 560, 562, 570, 571, 573, 574, 577, 584,
          586, 588, 590, 880, 882, 886, 895, 902, 908, 910, 911, 975, 984,
          986, 988, 990, 992, 994, 996, 998, 1000, 1002, 1004, 1006, 1012,
          1015, 1017, 1018, 1120, 1122, 1124, 1126, 1128, 1130, 1132, 1134,
          1136, 1138, 1140, 1142, 1144, 1146, 1148, 1150, 1152, 1162, 1164,
          1166, 1168, 1170, 1172, 1174, 1176, 1178, 1180, 1182, 1184, 1186,
          1188, 1190, 1192, 1194, 1196, 1198, 1200, 1202, 1204, 1206, 1208,
          1210, 1212, 1214, 1216, 1217, 1219, 1221, 1223, 1225, 1227, 1229,
          1232, 1234, 1236, 1238, 1240, 1242, 1244, 1246, 1248, 1250, 1252,
          1254, 1256, 1258, 1260, 1262, 1264, 1266, 1268, 1270, 1272, 1274,
          1276, 1278, 1280, 1282, 1284, 1286, 1288, 1290, 1292, 1294, 1296,
          1298, 1300, 1302, 1304, 1306, 1308, 1310, 1312, 1314, 1316, 1318,
          1320, 1322, 1324, 1326}

\* char::is_uppercase answering for the ASCII letters only
is_uppercase_ascii(c) == c >= 65 /\ c <= 90

\* char::is_uppercase.  No character the inputs hold at or above 0x800 is upper
\* case (they are symbols, unassigned or caseless letters)
is_uppercase(c) == c \in Uppercase

\* Every u32 taken for a character
is_any_u32(n) == n >= 0

\* char::from_u32(n).is_some(): n is a Unicode scalar value
is_scalar(n) == (n >= 0 /\ n <= 55295) \/ (n >= 57344 /\ n <= 1114111)

-----------------------------------------------------------------------------
(* Decimal fields: str::split and str::parse *)

RECURSIVE IndexOf(_, _, _)
\* Index of the first x in b at or after i, 0 when there is none
IndexOf(b, x, i) ==
    IF i > Len(b) THEN 0 ELSE IF b[i] = x THEN i ELSE IndexOf(b, x, i + 1)

RECURSIVE split(_, _)
\* str_buf.split(sep).collect(): always at least one (possibly empty) field
split(b, sep) ==
    LET i == IndexOf(b, sep, 1) IN
    IF i = 0 THEN <<b>>
    ELSE <<SubSeq(b, 1, i - 1)>> \o split(SubSeq(b, i + 1, Len(b)), sep)

IsDigit(b) == b >= 48 /\ b <= 57

\* Values at or above Saturated are all reported as Saturated: the decoder
\* only tells them apart from smaller values (no scalar value, no table entry)
Saturated == 2000000

RECURSIVE DigitsValue(_, _, _)
DigitsValue(f, i, acc) ==
    IF i > Len(f) THEN acc
    ELSE LET v == acc * 10 + (f[i] - 48)
         IN  DigitsValue(f, i + 1, IF v > Saturated THEN Saturated ELSE v)

RECURSIVE SkipZeros(_)
SkipZeros(f) == IF Len(f) > 0 /\ f[1] = 48 THEN SkipZeros(Tail(f)) ELSE f

\* The significant digits of a 10-digit field exceed u32::MAX = 4294967295
Above_u32(d) ==
    \/ DigitsValue(SubSeq(d, 1, 5), 1, 0) > 42949
    \/ /\ DigitsValue(SubSeq(d, 1, 5), 1, 0) = 42949
       /\ DigitsValue(SubSeq(d, 6, 10), 1, 0) > 67295

\* field.parse::<uN>(): the value, or ParseError (empty field, a lone sign,
\* a byte that is no digit, a value above the type's maximum).  An optional
\* leading '+' is accepted.  bits is 8, 16 or 32.
ParseError == 0 - 1

parse_uint(f, bits) ==
    LET body == IF Len(f) > 0 /\ f[1] = 43 THEN Tail(f) ELSE f
        sig  == SkipZeros(body)
        v    == DigitsValue(body, 1, 0)
    IN  IF Len(body) = 0 THEN ParseError
        ELSE IF \E i \in 1..Len(body) : ~IsDigit(body[i]) THEN ParseError
        ELSE IF bits = 8  THEN (IF v > 255 THEN ParseError ELSE v)
        ELSE IF bits = 16 THEN (IF v > 65535 THEN ParseError ELSE v)
        ELSE IF Len(sig) > 10 \/ (Len(sig) = 10 /\ Above_u32(sig)) THEN ParseError
        ELSE v

\* str_buf.split(';').map(|n| n.parse().unwrap()).collect()
parse_nums(b, bits) ==
    LET f == split(b, 59) IN [i \in 1..Len(f) |-> parse_uint(f[i], bits)]

\* ... which panics when some field does not parse
nums_panic(nums) == \E i \in 1..Len(nums) : nums[i] = ParseError

-----------------------------------------------------------------------------
(* Reading a sequence up to its final byte *)

\* The final bytes of a numbered CSI sequence, `(64..=126)`
CsiFinal == 64..126

\* The final bytes of an SGR mouse report, b'm' | b'M'
SgrFinal == {77, 109}

RECURSIVE read_until(_, _, _, _)
\* let mut c = iter.next().unwrap().unwrap();
\* while !final(c) { buf.push(c); c = iter.next().unwrap().unwrap(); }
\* The unwraps abort the call when the iterator answers None or Err.
read_until(buf, s, p, final) ==
    LET it == Item(s, p) IN
    IF ~IsByte(it) THEN [panic |-> TRUE, buf |-> buf, c |-> 0, next |-> Advance(s, p)]
    ELSE IF it \in final
    THEN [panic |-> FALSE, buf |-> buf, c |-> it, next |-> Advance(s, p)]
    ELSE read_until(Append(buf, it), s, Advance(s, p), final)

-----------------------------------------------------------------------------
(* parse_numbered_escape *)

\* b'M': rxvt mouse report Cb ; Cx ; Cy
numbered_rxvt_mouse(buf, p) ==
    LET nums == parse_nums(buf, 16) IN
    IF nums_panic(nums) \/ Len(nums) < 3 THEN Panic(p)
    ELSE LET cb == nums[1]
             cx == nums[2]
             cy == nums[3]
         IN  IF cb = 32 THEN OkEvent(MouseEvent(NONE, "Left", "Press", cx, cy), p)
             ELSE IF cb = 33 THEN OkEvent(MouseEvent(NONE, "Middle", "Press", cx, cy), p)
             ELSE IF cb = 34 THEN OkEvent(MouseEvent(NONE, "Right", "Press", cx, cy), p)
             ELSE IF cb = 35 THEN OkEvent(MouseEvent(NONE, "Unknown", "Release", cx, cy), p)
             ELSE IF cb = 64 THEN OkEvent(MouseEvent(NONE, "Unknown", "Held", cx, cy), p)
             ELSE IF cb \in {96, 97}
             THEN OkEvent(MouseEvent(NONE, "WheelUp", "Press", cx, cy), p)
             ELSE Failure("Other", p)

\* b'~': special key code
numbered_tilde(buf, p) ==
    LET nums == parse_nums(buf, 8) IN
    IF nums_panic(nums) THEN Panic(p)
    ELSE IF Len(nums) > 1 THEN Failure("Other", p)
    ELSE LET v == nums[1] IN
         IF v \in {1, 7} THEN OkEvent(key_helper({}, Key("Home", 0)), p)
         ELSE IF v = 2 THEN OkEvent(key_helper({}, Key("Insert", 0)), p)
         ELSE IF v = 3 THEN OkEvent(key_helper({}, Key("Delete", 0)), p)
         ELSE IF v \in {4, 8} THEN OkEvent(key_helper({}, Key("End", 0)), p)
         ELSE IF v = 5 THEN OkEvent(key_helper({}, Key("PageUp", 0)), p)
         ELSE IF v = 6 THEN OkEvent(key_helper({}, Key("PageDown", 0)), p)
         ELSE IF v \in 11..15 THEN OkEvent(key_helper({}, Key("F", v - 10)), p)
         ELSE IF v \in 17..21 THEN OkEvent(key_helper({}, Key("F", v - 11)), p)
         ELSE IF v \in 23..24 THEN OkEvent(key_helper({}, Key("F", v - 12)), p)
         ELSE Failure("Other", p)

\* The modifiers the commented-out lines would take from the modifier field
kitty_modifiers_applied(modifier) ==
    Modifiers_new(BitSet(modifier, 0), BitSet(modifier, 1), BitSet(modifier, 2))

\* Modifiers::NONE, whatever the modifier field holds
kitty_modifiers(modifier) == NONE

\* b'u': kitty key event keycode[;modifier[:key_type]].  Every failing step
\* is a `?` (None); the modifier is parsed and not used.  (The two println!
\* calls write to stdout and do not change the result.)
numbered_kitty(buf, p) ==
    LET fields   == split(buf, 59)
        key_code == parse_uint(fields[1], 32)
        second   == IF Len(fields) >= 2 THEN split(fields[2], 58) ELSE <<<<48>>, <<49>>>>
        modifier == parse_uint(second[1], 32)
        key_type == IF Len(second) >= 2 THEN parse_uint(second[2], 32) ELSE 1
    IN  IF key_code = ParseError \/ modifier = ParseError \/ key_type = ParseError
        THEN Failure("Other", p)
        ELSE IF key_type \notin {1, 2, 3} THEN Failure("Other", p)
        ELSE IF ~is_scalar(key_code) THEN Failure("Other", p)
        ELSE OkEvent(KeyEvent(Key("Char", key_code),
                              CASE key_type = 1 -> "Press"
                                [] key_type = 2 -> "Held"
                                [] key_type = 3 -> "Release",
                              kitty_modifiers(modifier)), p)

\* The key of a modifier-qualified final byte A B C D F H
ModifiedKeyName(c) ==
    CASE c = 68 -> "Left"
      [] c = 67 -> "Right"
      [] c = 65 -> "Up"
      [] c = 66 -> "Down"
      [] c = 72 -> "Home"
      [] c = 70 -> "End"

\* b'A' | b'B' | b'C' | b'D' | b'F' | b'H': 1 ; modifier.  `nums[1] - 1` on
\* u8 overflows for a modifier of 0: a panic with overflow checks, 255 without.
numbered_modified_key(buf, c, p, checks) ==
    LET nums == parse_nums(buf, 8) IN
    IF nums_panic(nums) THEN Panic(p)
    ELSE IF ~(Len(nums) = 2 /\ nums[1] = 1) THEN Failure("Other", p)
    ELSE IF nums[2] = 0 /\ checks THEN Panic(p)
    ELSE LET mods  == (nums[2] + 255) % 256
             shift == BitSet(mods, 0)
             alt   == BitSet(mods, 1)
             ctrl  == BitSet(mods, 2)
         IN  OkEvent(simple_key(Key(ModifiedKeyName(c), 0), shift, alt, ctrl), p)

parse_numbered_escape(s, p, c, checks) ==
    LET r == read_until(<<c>>, s, p, CsiFinal) IN
    IF r.panic THEN Panic(r.next)
    ELSE IF r.c \notin {77, 126, 117, 65, 66, 67, 68, 70, 72} THEN Failure("Other", r.next)
    \* every other arm starts with String::from_utf8(buf).unwrap()
    ELSE IF ~from_utf8_ok(r.buf) THEN Panic(r.next)
    ELSE IF r.c = 77 THEN numbered_rxvt_mouse(r.buf, r.next)
    ELSE IF r.c = 126 THEN numbered_tilde(r.buf, r.next)
    ELSE IF r.c = 117 THEN numbered_kitty(r.buf, r.next)
    ELSE numbered_modified_key(r.buf, r.c, r.next, checks)

-----------------------------------------------------------------------------
(* parse_x10_mouse *)

\* u8::wrapping_sub, u8::saturating_sub, u16::saturating_sub
wrapping_sub(a, b) == (a + 256 - b) % 256
sub_mod_u16(a, b) == (a + 65536 - b) % 65536
saturating_sub(a, b) == IF a >= b THEN a - b ELSE 0

\* The table with cb & 0x40 read as clear
x10_button_no_wheel(cb) ==
    LET low == cb % 4
    IN  CASE low = 0 -> <<"Left", "Press">>
          [] low = 1 -> <<"Middle", "Press">>
          [] low = 2 -> <<"Right", "Press">>
          [] low = 3 -> <<"Unknown", "Release">>

\* The button and action selected by cb & 0b11 and cb & 0x40
x10_button(cb) ==
    LET low   == cb % 4
        wheel == BitSet(cb, 6)
    IN  CASE low = 0 -> IF wheel THEN <<"WheelUp", "Press">> ELSE <<"Left", "Press">>
          [] low = 1 -> IF wheel THEN <<"WheelDown", "Press">> ELSE <<"Middle", "Press">>
          [] low = 2 -> IF wheel THEN <<"WheelLeft", "Press">> ELSE <<"Right", "Press">>
          [] low = 3 -> IF wheel THEN <<"WheelRight", "Press">> ELSE <<"Unknown", "Release">>

\* Three raw bytes follow ESC [ M; each is read with unwrap().unwrap()
parse_x10_mouse(s, p) ==
    LET b0 == Item(s, p)
        p1 == Advance(s, p)
        b1 == Item(s, p1)
        p2 == Advance(s, p1)
        b2 == Item(s, p2)
        p3 == Advance(s, p2)
    IN  IF ~IsByte(b0) THEN Panic(p1)
        ELSE IF ~IsByte(b1) THEN Panic(p2)
        ELSE IF ~IsByte(b2) THEN Panic(p3)
        ELSE LET cb == wrapping_sub(b0, 32)
                 cx == saturating_sub(b1, 33)
                 cy == saturating_sub(b2, 33)
                 ba == x10_button(cb)
             IN  OkEvent(MouseEvent(NONE, ba[1], ba[2], cx, cy), p3)

-----------------------------------------------------------------------------
(* parse_xterm_mouse *)

\* The button of a trimmed Cb in 0..=2 | 64..=67
sgr_button(t) ==
    CASE t = 0  -> "Left"
      [] t = 1  -> "Middle"
      [] t = 2  -> "Right"
      [] t = 64 -> "WheelUp"
      [] t = 65 -> "WheelDown"
      [] t = 66 -> "WheelLeft"
      [] t = 67 -> "WheelRight"

\* cb with only bits 2 and 3 cleared
trim_cb_keep_ctrl(cb) == cb - 4 * ((cb \div 4) % 4)

\* cb ^ (cb & 0b0001_1100): cb with bits 2, 3, 4 cleared
trim_cb(cb) == cb - 4 * ((cb \div 4) % 8)

parse_xterm_mouse(s, p) ==
    LET r == read_until(<<>>, s, p, SgrFinal) IN
    IF r.panic THEN Panic(r.next)
    ELSE IF ~from_utf8_ok(r.buf) THEN Panic(r.next)
    ELSE LET f  == split(r.buf, 59)
             cb == parse_uint(f[1], 16)
         IN  IF cb = ParseError THEN Panic(r.next)
             ELSE IF Len(f) < 2 THEN Failure("Other", r.next)
             ELSE IF parse_uint(f[2], 16) = ParseError THEN Panic(r.next)
             ELSE IF Len(f) < 3 THEN Failure("Other", r.next)
             ELSE IF parse_uint(f[3], 16) = ParseError THEN Panic(r.next)
             ELSE LET cx   == saturating_sub(parse_uint(f[2], 16), 1)
                      cy   == saturating_sub(parse_uint(f[3], 16), 1)
                      mods == Modifiers_new(BitSet(cb, 2), BitSet(cb, 3), BitSet(cb, 4))
                      t    == trim_cb(cb)
                  IN  IF t \in (0..2) \cup (64..67)
                      THEN OkEvent(MouseEvent(mods, sgr_button(t),
                                              IF r.c = 77 THEN "Press" ELSE "Release",
                                              cx, cy), r.next)
                      ELSE IF t = 32 THEN OkEvent(MouseEvent(mods, "Left", "Held", cx, cy), r.next)
                      ELSE IF t = 33 THEN OkEvent(MouseEvent(mods, "Middle", "Held", cx, cy), r.next)
                      ELSE IF t = 34 THEN OkEvent(MouseEvent(mods, "Right", "Held", cx, cy), r.next)
                      ELSE IF t = 35 THEN OkEvent(MouseEvent(mods, "None", "Held", cx, cy), r.next)
                      ELSE IF t = 3 THEN OkEvent(MouseEvent(mods, "Unknown", "Release", cx, cy), r.next)
                      ELSE Failure("Other", r.next)

-----------------------------------------------------------------------------
(* parse_csi_sequence: after ESC [ *)

ESC == 27

\* The final bytes that name a key directly: D C A B H F Z
CsiKeyFinal == {68, 67, 65, 66, 72, 70, 90}

csi_key_swapped(c) ==
    CASE c = 68 -> key_helper({}, Key("Right", 0))
      [] c = 67 -> key_helper({}, Key("Left", 0))
      [] c = 65 -> key_helper({}, Key("Up", 0))
      [] c = 66 -> key_helper({}, Key("Down", 0))
      [] c = 72 -> key_helper({}, Key("Home", 0))
      [] c = 70 -> key_helper({}, Key("End", 0))
      [] c = 90 -> key_helper({}, Key("Tab", 0))

csi_key(c) ==
    CASE c = 68 -> key_helper({}, Key("Left", 0))
      [] c = 67 -> key_helper({}, Key("Right", 0))
      [] c = 65 -> key_helper({}, Key("Up", 0))
      [] c = 66 -> key_helper({}, Key("Down", 0))
      [] c = 72 -> key_helper({}, Key("Home", 0))
      [] c = 70 -> key_helper({}, Key("End", 0))
      [] c = 90 -> key_helper({}, Key("Tab", 0))

\* ESC [ [ val with val in b'A'..=b'E'
linux_fkey(val) == key_helper({}, Key("F", 1 + val - 65))

\* Nothing after ESC [ taken as a lone Escape key
csi_no_byte_escape == key_helper({}, Key("Escape", 0))

\* `None => Some(key_helper("A", Key::Char('[')))`: nothing follows ESC [
csi_no_byte == key_helper({"A"}, Key("Char", 91))

\* Option<Event>: None becomes the "Could not parse event" error in
\* parse_ansi_sequence (`.ok_or(error)`), kind Other
parse_csi_sequence(s, p, checks) ==
    LET it == Item(s, p)
        p1 == Advance(s, p)
    IN  IF it = 91
        THEN LET val == Item(s, p1)
                 p2  == Advance(s, p1)
             IN  IF val \in 65..69 THEN OkEvent(linux_fkey(val), p2)
                 ELSE Failure("Other", p2)
        ELSE IF it \in CsiKeyFinal THEN OkEvent(csi_key(it), p1)
        ELSE IF it = 60 THEN parse_xterm_mouse(s, p1)
        ELSE IF it = 77 THEN parse_x10_mouse(s, p1)
        ELSE IF it \in 48..57 THEN parse_numbered_escape(s, p1, it, checks)
        ELSE IF it = NoByte THEN OkEvent(csi_no_byte, p1)
        ELSE Failure("Other", p1)

-----------------------------------------------------------------------------
(* parse_ansi_sequence: after ESC *)

\* The bytes accepted after ESC O, `b'P'..=b's'`
Ss3Final == 80..115

ss3_fkey(val) == key_helper({}, Key("F", 1 + val - 80))

\* `None => Ok(key_helper("", Key::Escape))`: nothing follows the ESC
ansi_no_byte_alt == key_helper({"A"}, Key("Escape", 0))
ansi_no_byte == key_helper({}, Key("Escape", 0))

\* The arms of `Some(Ok(c)) => match c` for the bytes that are not the start
\* of a character: the table of parse_event repeated with "A" added
alt_key(c) ==
    IF c = 13 THEN key_helper({"A"}, Key("Char", 13))
    ELSE IF c = 10 THEN key_helper({"C", "A"}, Key("Char", 106))
    ELSE IF c = 9 THEN key_helper({"A"}, Key("Char", 9))
    ELSE IF c = 127 THEN key_helper({"A"}, Key("Backspace", 0))
    ELSE IF c = 0 THEN key_helper({"C", "A"}, Key("Char", 32))
    ELSE IF c >= 1 /\ c <= 26 THEN key_helper({"C", "A"}, Key("Char", c + 96))
    ELSE key_helper({"C", "A"}, Key("Char", c + 24))

\* The bytes of those arms
AltTable == {13, 10, 9, 127, 0} \cup (1..26) \cup (28..31)

\* Modifiers::NONE.shift(b) and .alt(b)
with_shift(m, b) == [m EXCEPT !.shift = b]
with_alt(m, b) == [m EXCEPT !.alt = b]

parse_ansi_sequence(s, p, checks) ==
    LET it == Item(s, p)
        p1 == Advance(s, p)
    IN  IF it = NoByte THEN OkEvent(ansi_no_byte, p1)
        ELSE IF it = 79
        THEN LET val == Item(s, p1)
                 p2  == Advance(s, p1)
             IN  IF val \in Ss3Final THEN OkEvent(ss3_fkey(val), p2)
                 ELSE Failure("Other", p2)
        ELSE IF it = 91 THEN parse_csi_sequence(s, p1, checks)
        ELSE IF it = IoErr THEN Failure("Other", p1)
        ELSE IF it \in AltTable THEN OkEvent(alt_key(it), p1)
        ELSE LET r == parse_utf8_char(it, s, p1) IN
             IF r.kind = "Ok"
             THEN OkEvent(KeyEvent(Key("Char", r.ch), "Press",
                                   with_alt(with_shift(NONE, is_uppercase(r.ch)), TRUE)),
                          r.next)
             ELSE r

-----------------------------------------------------------------------------
(* parse_event *)

\* `(c + 96) as char` for c in 0x01..=0x1a, `(c + 24) as char` for 0x1c..=0x1f
ctrl_letter_upper(c) == c + 64
ctrl_letter(c) == c + 96
ctrl_symbol(c) == c + 24

\* The arms of parse_event for the bytes that are neither ESC nor the start
\* of a character
plain_key(c) ==
    IF c = 13 THEN key_helper({}, Key("Char", 13))
    ELSE IF c = 10 THEN key_helper({"C"}, Key("Char", 106))
    ELSE IF c = 9 THEN key_helper({}, Key("Char", 9))
    ELSE IF c = 127 THEN key_helper({}, Key("Backspace", 0))
    ELSE IF c = 0 THEN key_helper({"C"}, Key("Char", 32))
    ELSE IF c >= 1 /\ c <= 26 THEN key_helper({"C"}, Key("Char", ctrl_letter(c)))
    ELSE key_helper({"C"}, Key("Char", ctrl_symbol(c)))

PlainTable == {13, 10, 9, 127, 0} \cup (1..26) \cup (28..31)

parse_event(item, s, p, checks) ==
    IF item = ESC THEN parse_ansi_sequence(s, p, checks)
    ELSE IF item \in PlainTable THEN OkEvent(plain_key(item), p)
    ELSE LET r == parse_utf8_char(item, s, p) IN
         IF r.kind = "Ok"
         THEN OkEvent(KeyEvent(Key("Char", r.ch), "Press",
                               with_shift(NONE, is_uppercase(r.ch))),
                      r.next)
         ELSE r

-----------------------------------------------------------------------------
(* Windows: parse_key_event on a KEY_EVENT_RECORD *)

\* InputRecord with event_type 0x1 and the fields of its KeyEventRecord
KeyEventRecord(key_down, vk, uchar, state) ==
    [event_type |-> 1, key_down |-> key_down, virtual_key_code |-> vk,
     unicode_char |-> uchar, control_key_state |-> state]

\* InputRecord with another event_type (0x10 is a focus event)
OtherRecord(event_type) ==
    [event_type |-> event_type, key_down |-> 0, virtual_key_code |-> 0,
     unicode_char |-> 0, control_key_state |-> 0]

\* char::is_ascii_alphabetic
is_ascii_alphabetic(c) == (c >= 65 /\ c <= 90) \/ (c >= 97 /\ c <= 122)

\* control_key_state & (0x0008 | 0x0004) != 0
win_ctrl(state) == BitSet(state, 3) \/ BitSet(state, 2)

\* control_key_state & 0x0010 != 0
win_shift(state) == BitSet(state, 4)

\* The virtual key codes with a named key
VkTable ==
    [v \in {8, 27, 33, 34, 35, 36, 37, 38, 39, 40, 45, 46} |->
        CASE v = 8  -> Key("Backspace", 0)
          [] v = 27 -> Key("Escape", 0)
          [] v = 33 -> Key("PageUp", 0)
          [] v = 34 -> Key("PageDown", 0)
          [] v = 35 -> Key("End", 0)
          [] v = 36 -> Key("Home", 0)
          [] v = 37 -> Key("Left", 0)
          [] v = 38 -> Key("Up", 0)
          [] v = 39 -> Key("Right", 0)
          [] v = 40 -> Key("Down", 0)
          [] v = 45 -> Key("Insert", 0)
          [] v = 46 -> Key("Delete", 0)]

\* The arm for virtual key code 0x09
win_tab(shift) ==
    IF shift THEN key_helper({"S"}, Key("Tab", 0)) ELSE key_helper({}, Key("Tab", 0))

\* The arm 0x70..=0x87 counting the function keys from the first code
win_fkey_from_zero(v) == key_helper({}, Key("F", (v - 112) % 256))

\* The arm 0x70..=0x87: (virtual_key_code - 0x6F) as u8
win_fkey(v) == key_helper({}, Key("F", (v - 111) % 256))

\* The fallback arm keeping the 16-bit value when it is not a scalar value
win_char_raw(ctrl, uchar) ==
    IF ctrl /\ is_ascii_alphabetic(uchar)
    THEN key_helper({"C"}, Key("Char", uchar))
    ELSE key_helper({}, Key("Char", uchar))

\* The fallback arm with ctrl for every character
win_char_any(ctrl, uchar) ==
    LET c == IF is_scalar(uchar) THEN uchar ELSE 32
    IN  IF ctrl
        THEN key_helper({"C"}, Key("Char", c))
        ELSE key_helper({}, Key("Char", c))

\* The fallback arm: the character of the record, ' ' when it is not a scalar
\* value, with ctrl only for an ASCII letter
win_char(ctrl, uchar) ==
    LET c == IF is_scalar(uchar) THEN uchar ELSE 32
    IN  IF ctrl /\ is_ascii_alphabetic(c)
        THEN key_helper({"C"}, Key("Char", c))
        ELSE key_helper({}, Key("Char", c))

parse_key_event(event) ==
    LET ctrl  == win_ctrl(event.control_key_state)
        shift == win_shift(event.control_key_state)
        v     == event.virtual_key_code
    IN  IF v \in DOMAIN VkTable THEN key_helper({}, VkTable[v])
        ELSE IF v = 9 THEN win_tab(shift)
        ELSE IF v = 13 THEN key_helper({}, Key("Char", 10))
        ELSE IF v >= 112 /\ v <= 135 THEN win_fkey(v)
        ELSE win_char(ctrl, event.unicode_char)

-----------------------------------------------------------------------------
(* Inputs *)

RECURSIVE SeqsUpTo(_, _)
\* The sequences over S of length 0..n
SeqsUpTo(S, n) ==
    IF n = 0 THEN {<<>>}
    ELSE LET shorter == SeqsUpTo(S, n - 1)
         IN  shorter \cup {Append(t, x) : t \in shorter, x \in S}

\* Every answer the iterator can give
Items == Byte \cup {NoByte, IoErr}

\* Scalar values for test_parse_utf8: the characters of its string with 1, 2
\* and 3 byte encodings, a 4 byte one, and the first and last scalar value of
\* each encoded length and around the surrogates
CharSample ==
    {97, 37, 233, 375, 8364, 128512,
     0, 127, 128, 2047, 2048, 55295, 57344, 65535, 65536, 1114111}

\* Answers for direct parse_utf8_char calls: an ASCII byte, a continuation
\* byte, lead bytes of 2, 3 and 4 byte sequences, no byte, a read error
Utf8Items == {65, 159, 195, 226, 240, NoByte, IoErr}

\* Answers that follow the sequence under decoding
TailItems == {65, 172, NoByte}

Tails == SeqsUpTo(TailItems, MaxTail)

ShortTails == {<<>>, <<65>>}

\* Decimal fields: 1, 2, 256, +6, the empty field, a blank
FieldSample == {<<49>>, <<50>>, <<50, 53, 54>>, <<43, 54>>, <<>>, <<32>>}

\* First fields (they start with a digit): 1, 2, 0, 256
FirstFields == {<<49>>, <<50>>, <<48>>, <<50, 53, 54>>}

RECURSIVE ParamLists(_)
\* first ; f2 ; ... with at most n fields
ParamLists(n) ==
    IF n = 1 THEN FirstFields
    ELSE LET shorter == ParamLists(n - 1)
         IN  shorter \cup {t \o <<59>> \o f : t \in shorter, f \in FieldSample}

\* Final bytes A B C D F H, E, ~, M, u, and a sequence cut before its final byte
FinalSample ==
    {<<65>>, <<66>>, <<67>>, <<68>>, <<70>>, <<72>>, <<69>>, <<126>>, <<77>>,
     <<117>>, <<>>, <<NoByte>>}

\* What precedes the answer that ranges over all of Items
Stems == {<<>>, <<ESC>>, <<ESC, 91>>}

ShortStems == {<<ESC, 79>>, <<ESC, 91, 91>>}

\* ESC [ M b0 b1 b2.  b0: Cb 0..7 and 64..71 (32 added), bytes below 32
\* and above 127; b1, b2: coordinates around the origin offset, and every
\* byte for one coordinate at a time
X10Inputs ==
    {<<ESC, 91, 77, b0, b1, b2>> \o t :
        b0 \in (32..39) \cup (96..103) \cup {0, 31, 144, 163, 255},
        b1 \in {0, 33, 38}, b2 \in {0, 36, 255}, t \in ShortTails}
    \cup {<<ESC, 91, 77, 32, b1, b2>> : b1 \in Byte, b2 \in {32, 36}}
    \cup {<<ESC, 91, 77, 32, b1, b2>> : b1 \in {32, 38}, b2 \in Byte}

RECURSIVE Digits(_)
\* The decimal digits of n, as the terminal writes a parameter
Digits(n) == IF n < 10 THEN <<48 + n>> ELSE Digits(n \div 10) \o <<48 + (n % 10)>>

\* ESC [ < Cb ; Cx ; Cy final
SgrReport(cb, cx, cy, final) ==
    <<ESC, 91, 60>> \o Digits(cb) \o <<59>> \o Digits(cx) \o <<59>> \o Digits(cy)
        \o <<final>>

\* Cb: the buttons, drags, wheels and the release code, alone and with the
\* shift (4), alt (8) and ctrl (16) bits; codes outside the table
SgrCbSample ==
    {b + m : b \in {0, 1, 2, 3, 32, 33, 34, 35, 64, 65, 66, 67}, m \in {0, 4, 8, 16, 28}}
    \cup {96, 128, 2048, 65535}

\* Cx, Cy: the first and last values, 1-based origin, the values of the
\* spec's example, the first value past a byte
SgrCoordSample == {0, 1, 2, 6, 11, 256, 65534, 65535}

SgrInputs ==
    {SgrReport(cb, 11, 6, f) \o t :
        cb \in SgrCbSample, f \in SgrFinal, t \in ShortTails}
    \cup {SgrReport(0, cx, cy, 77) : cx \in SgrCoordSample, cy \in SgrCoordSample}
    \cup {SgrReport(35, cx, cy, 109) : cx \in {0, 65535}, cy \in {0, 65535}}

\* ESC [ N ~ for every N of a byte, and ESC [ N ; K ~
TildeInputs ==
    {<<ESC, 91>> \o Digits(n) \o <<126>> \o t : n \in 0..255, t \in ShortTails}
    \cup {<<ESC, 91>> \o Digits(n) \o <<59>> \o Digits(k) \o <<126>> :
             n \in {1, 3, 5, 15, 24, 200}, k \in {0, 2, 5, 255, 300}}
    \cup {<<ESC, 91>> \o Digits(n) \o <<59, 50, 59>> \o Digits(k) \o <<126>> :
             n \in {3, 15}, k \in {5, 255}}

\* Payloads of SGR reports that are not Cb ; Cx ; Cy: one and two fields,
\* no field, an empty field, a letter, a blank, 65536 as Cb and as Cx, a
\* byte that is not ASCII, a sign; and a fourth field
SgrOddPayloads ==
    {<<48>>, <<48, 59, 49, 49>>, <<>>, <<48, 59, 59, 54>>, <<48, 59, 120, 59, 54>>,
     <<48, 59, 49, 32, 59, 54>>, <<54, 53, 53, 51, 54, 59, 49, 59, 49>>,
     <<48, 59, 54, 53, 53, 51, 54, 59, 49>>, <<48, 59, 49, 59, 172>>,
     <<48, 59, 43, 50, 59, 54>>, <<48, 59, 49, 49, 59, 54, 59, 55>>,
     <<120>>, <<48, 59, 120>>}

SgrOddInputs ==
    {<<ESC, 91, 60>> \o ps \o <<f>> \o t :
        ps \in SgrOddPayloads, f \in SgrFinal, t \in ShortTails}

\* ESC [ Cb ; Cx ; Cy M: the codes of the table, their neighbours, the last
\* u16 and the first number past it
RxvtInputs ==
    {<<ESC, 91>> \o Digits(cb) \o <<59>> \o Digits(c[1]) \o <<59>> \o Digits(c[2])
        \o <<77>> \o t :
        cb \in {0, 31, 32, 33, 34, 35, 36, 63, 64, 65, 95, 96, 97, 98, 255, 256,
                65535, 65536},
        c \in {<<11, 6>>, <<0, 0>>, <<65535, 1>>}, t \in ShortTails}

\* What follows the keycode of a kitty key event: nothing; a modifier; a
\* modifier and a key_type 1, 2, 3, 0, 4; an empty modifier; an empty
\* key_type; a key_type that is no number; modifiers that are no number: '?',
\* a blank, a byte that is not UTF-8
KittySuffixes ==
    {<<>>, <<59, 53>>, <<59, 53, 58, 49>>, <<59, 53, 58, 50>>, <<59, 53, 58, 51>>,
     <<59, 53, 58, 48>>, <<59, 53, 58, 52>>, <<59, 58, 50>>, <<59, 53, 58>>,
     <<59, 53, 58, 63>>, <<59, 63>>, <<59, 32, 58, 50>>, <<59, 172, 58, 49>>}

\* ESC [ keycode suffix u: letters, NUL, the scalar values next to the
\* surrogates, the surrogates next to them, the last scalar value and the
\* number after it; and the keycode 4294967296 = u32::MAX + 1
KittyInputs ==
    {<<ESC, 91>> \o Digits(kc) \o sfx \o <<117>> \o t :
        kc \in {97, 0, 233, 8364, 128512, 55295, 55296, 57343, 57344, 1114111, 1114112},
        sfx \in KittySuffixes, t \in ShortTails}
    \cup {<<ESC, 91, 52, 50, 57, 52, 57, 54, 55, 50, 57, 54>> \o sfx \o <<117>> :
        sfx \in KittySuffixes}

Inputs ==
    X10Inputs \cup SgrInputs \cup SgrOddInputs \cup TildeInputs \cup RxvtInputs
    \cup KittyInputs \cup
    {stem \o <<x>> \o t : stem \in Stems, x \in Items, t \in Tails}
    \cup {stem \o <<x>> \o t : stem \in ShortStems, x \in Items, t \in ShortTails}
    \cup {pre \o encode_utf8(c) \o t :
             pre \in {<<>>, <<ESC>>}, c \in CharSample, t \in ShortTails}
    \cup {<<ESC, 91, 49, 59, 48 + n>> \o f \o t :
             n \in 0..9, f \in FinalSample, t \in ShortTails}
    \cup {<<ESC, 91>> \o ps \o f \o t :
             ps \in ParamLists(MaxFields), f \in FinalSample, t \in ShortTails}
    \cup {<<ESC>>, <<ESC, 79>>, <<ESC, 91>>, <<ESC, 91, 91>>}
    \cup {<<ESC, 91, 49, IoErr>>, <<ESC, 91, 60, 48, IoErr>>, <<ESC, 91, 77, 32, IoErr>>}
    \cup {<<ESC, 91, NoByte>> \o rest :
             rest \in {<<68>>, <<49, 126>>, <<49, 59, 53, 68>>, <<60, 48, 59>>}}

\* cfg!(overflow_checks): on in debug builds, off in release builds
OverflowChecks == BOOLEAN

\* control_key_state: nothing, right ctrl, left ctrl, shift, shift and left
\* ctrl, left alt
StateSample == {0, 4, 8, 16, 24, 2}

\* unicode_char: NUL, the control codes of ctrl+A and ESC, a digit, letters,
\* the neighbours of the letters, a Latin-1 letter, surrogates, the last u16
UCharSample == {0, 1, 27, 49, 64, 65, 90, 91, 97, 122, 123, 233, 55296, 57343, 65535}

\* Key presses with every virtual key code up to the one after the function
\* keys; key presses with a code that reaches the fallback arm (0, 'A', the
\* neighbours of the function keys); key releases; a focus and a mouse event
RecordSample ==
    {KeyEventRecord(1, v, 97, st) : v \in 0..136, st \in StateSample}
    \cup {KeyEventRecord(1, v, u, st) :
        v \in {0, 65, 111, 136}, u \in UCharSample, st \in StateSample}
    \cup {KeyEventRecord(0, v, 97, st) : v \in {9, 65}, st \in {0, 8}}
    \cup {OtherRecord(16), OtherRecord(2)}

\* The records that follow the first one
RecordTails ==
    {<<>>, <<OtherRecord(16)>>, <<KeyEventRecord(1, 65, 97, 0), OtherRecord(16)>>}

RecordQueues == {<<r>> \o t : r \in RecordSample, t \in RecordTails}

-----------------------------------------------------------------------------
(* test_parse_utf8 *)

InitUtf8Test ==
    /\ string \in SeqsUpTo(CharSample, MaxChars)
    /\ src = str_bytes(string)
    /\ pos = 1
    /\ last = NoCall
    /\ decoded = <<>>
    /\ target_os = "unix"
    /\ records = <<>>
    /\ events = <<>>
    /\ returned = <<>>
    /\ timeout = DefaultTimeout
    /\ waited = <<>>
    /\ handler = NoHandler
    /\ calls = <<>>
    /\ stdin_attrs = {}
    /\ TERMIOS = Uninit

\* One round of `for c in chars`: b = bytes.next().unwrap().unwrap();
\* character = parse_utf8_char(b, bytes).unwrap(); assert!(c == character)
test_parse_utf8 ==
    /\ Len(decoded) < Len(string)
    /\ last.res.kind # "Panic"
    /\ LET b == Item(src, pos)
           c == string[Len(decoded) + 1]
           r == parse_utf8_char(b, src, Advance(src, pos))
       IN  IF ~IsByte(b)
           THEN /\ last' = [op |-> "parse_utf8_char", first |-> b,
                            start |-> Advance(src, pos), res |-> Panic(Advance(src, pos))]
                /\ pos' = Advance(src, pos)
                /\ decoded' = decoded
           ELSE IF r.kind # "Ok" \/ r.ch # c
           THEN /\ last' = [op |-> "parse_utf8_char", first |-> b,
                            start |-> Advance(src, pos), res |-> Panic(r.next)]
                /\ pos' = r.next
                /\ decoded' = decoded
           ELSE /\ last' = [op |-> "parse_utf8_char", first |-> b,
                            start |-> Advance(src, pos), res |-> r]
                /\ pos' = r.next
                /\ decoded' = Append(decoded, r.ch)
    /\ UNCHANGED <<string, src, target_os, records, events, returned, timeout, waited, handler, calls, stdin_attrs, TERMIOS>>

SpecUtf8Test == InitUtf8Test /\ [][test_parse_utf8]_vars

-----------------------------------------------------------------------------
(* parse_utf8_char applied to any first byte and any source *)

InitUtf8 ==
    /\ string = <<>>
    /\ src \in SeqsUpTo(Utf8Items, MaxBytes)
    /\ pos = 1
    /\ last = NoCall
    /\ decoded = <<>>
    /\ target_os = "unix"
    /\ records = <<>>
    /\ events = <<>>
    /\ returned = <<>>
    /\ timeout = DefaultTimeout
    /\ waited = <<>>
    /\ handler = NoHandler
    /\ calls = <<>>
    /\ stdin_attrs = {}
    /\ TERMIOS = Uninit

\* A caller hands the byte it has just read, and the iterator, to parse_utf8_char
call_parse_utf8_char ==
    /\ IsByte(Item(src, pos))
    /\ LET c == Item(src, pos)
           r == parse_utf8_char(c, src, pos + 1)
       IN  /\ last' = [op |-> "parse_utf8_char", first |-> c, start |-> pos + 1, res |-> r]
           /\ pos' = r.next
    /\ UNCHANGED <<string, src, decoded, target_os, records, events, returned, timeout, waited, handler, calls, stdin_attrs, TERMIOS>>

SpecUtf8 == InitUtf8 /\ [][call_parse_utf8_char]_vars

-----------------------------------------------------------------------------
(* poll_input *)

\* The return value of poll(): ready, timed out, failed
PollResults == {1, 0, 0 - 1}

\* The return value of WaitForSingleObject: signalled, WAIT_TIMEOUT,
\* WAIT_FAILED (0xFFFFFFFF, any value other than 0 is treated alike)
WaitResults == {0, 258, 0 - 1}

\* The return value of ReadConsoleInputW: nonzero on success
ReadResults == {1, 0}

Init ==
    /\ string = <<>>
    /\ events = <<>>
    /\ returned = <<>>
    /\ timeout = DefaultTimeout
    /\ waited = <<>>
    /\ handler = NoHandler
    /\ calls = <<>>
    /\ stdin_attrs = {}
    /\ TERMIOS = Uninit
    /\ pos = 1
    /\ last = NoCall
    /\ decoded = <<>>
    /\ \/ target_os = "unix" /\ src \in Inputs /\ records = <<>>
       \/ target_os = "windows" /\ src = <<>> /\ records \in RecordQueues

\* timeout.as_millis() as c_int: the low 32 bits, read as a signed integer
as_c_int(t) ==
    LET h == t[1] % 65536
    IN  IF h >= 32768 THEN (h - 65536) * 65536 + t[2] ELSE h * 65536 + t[2]

\* timeout.as_millis() as u32: the low 32 bits, as <<high half, low half>>
as_u32(t) == <<t[1] % 65536, t[2]>>

\* INFINITE = 0xFFFFFFFF: WaitForSingleObject waits without a limit
INFINITE == <<65535, 65535>>

\* `0 => Err(timed_out)` with a byte taken from the source
poll_timed_out_reads(p) == Failure("TimedOut", Advance(src, p))

\* `0 => Err(timed_out)`: nothing is read
poll_timed_out(p) == Failure("TimedOut", p)

\* The body of poll_input for a return value of poll_timeout: the record of
\* the call, with its result
poll_input_call(result, checks) ==
    LET item == Item(src, pos)
        p1   == Advance(src, pos)
        r    == IF result >= 1
                THEN (IF item = NoByte THEN Failure("TimedOut", p1)
                      ELSE IF item = IoErr THEN Failure("Io", p1)
                      ELSE parse_event(item, src, p1, checks))
                ELSE IF result = 0 THEN poll_timed_out(pos)
                ELSE Failure("Io", pos)
    IN  [op |-> IF result >= 1 /\ IsByte(item) THEN "parse_event" ELSE "poll_input",
         first |-> IF result >= 1 THEN item ELSE NoByte,
         start |-> p1, res |-> r]

poll_input ==
    /\ target_os = "unix"
    /\ last.res.kind # "Panic"
    /\ \E result \in PollResults, checks \in OverflowChecks :
          \* poll() with a negative timeout blocks until the descriptor is ready
          /\ result = 0 => as_c_int(timeout) >= 0
          /\ last' = poll_input_call(result, checks)
          /\ pos' = last'.res.next
          /\ waited' = <<[handed |-> as_c_int(timeout), result |-> result]>>
    /\ UNCHANGED <<string, src, decoded, target_os, records, events, returned, timeout, handler, calls, stdin_attrs, TERMIOS>>

\* The key-up arm reporting what the focus arm reports
win_key_up_as_focus(p) == Failure("InvalidData", p)

\* `if key_event.key_down == 0 { return Err(io::ErrorKind::Other.into()); }`
win_key_up(p) == Failure("Other", p)

\* windows_input.rs poll_input: wait on the console handle, read one record,
\* translate it.  The handle is signalled while a record is waiting.
poll_input_windows ==
    /\ target_os = "windows"
    /\ \E wait \in WaitResults, read \in ReadResults :
          /\ wait = 0 => pos <= Len(records)
          /\ wait = 258 => pos > Len(records) /\ as_u32(timeout) # INFINITE
          /\ LET record == records[pos]
                 r == IF wait # 0 THEN Failure("TimedOut", pos)
                      ELSE IF read = 0 THEN Failure("Io", pos)
                      ELSE IF record.event_type = 16 THEN Failure("InvalidData", pos + 1)
                      ELSE IF record.event_type = 1
                      THEN (IF record.key_down = 0 THEN win_key_up(pos + 1)
                            ELSE OkEvent(parse_key_event(record), pos + 1))
                      ELSE Failure("InvalidData", pos + 1)
             IN  /\ last' = [op |-> IF r.kind = "Ok" THEN "parse_key_event" ELSE "poll_input",
                             first |-> NoByte, start |-> pos, res |-> r]
                 /\ pos' = r.next
                 /\ waited' = <<[handed |-> as_u32(timeout), result |-> wait]>>
    /\ UNCHANGED <<string, src, decoded, target_os, records, events, returned, timeout, handler, calls, stdin_attrs, TERMIOS>>

Next == poll_input \/ poll_input_windows

Spec == Init /\ [][Next]_vars

-----------------------------------------------------------------------------
(* poll_input on a stream of complete encodings, every byte available *)

\* Complete encodings of the tables of the decoder: a letter, an upper-case
\* letter, a 2 and a 3 byte character, Ctrl+C, CR, Alt+a, Up, ESC [ Z,
\* SS3 F1, Linux console F1, Delete, Ctrl+Right, an X10, an SGR and a rxvt
\* mouse report, a kitty key release
Encodings ==
    {<<97>>, <<65>>, <<195, 169>>, <<226, 130, 172>>, <<3>>, <<13>>, <<ESC, 97>>,
     <<ESC, 91, 65>>, <<ESC, 91, 90>>, <<ESC, 79, 80>>, <<ESC, 91, 91, 65>>,
     <<ESC, 91, 51, 126>>, <<ESC, 91, 49, 59, 53, 67>>, <<ESC, 91, 77, 32, 38, 36>>,
     SgrReport(0, 11, 6, 77), <<ESC, 91, 51, 50, 59, 49, 49, 59, 54, 77>>,
     <<ESC, 91, 57, 55, 59, 49, 58, 51, 117>>}

RECURSIVE Stream(_)
\* The bytes of the encodings of es, one after the other
Stream(es) == IF es = <<>> THEN <<>> ELSE es[1] \o Stream(Tail(es))

InitStream ==
    /\ string = <<>>
    /\ decoded = <<>>
    /\ target_os = "unix"
    /\ records = <<>>
    /\ events \in SeqsUpTo(Encodings, MaxEvents)
    /\ src = Stream(events)
    /\ pos = 1
    /\ last = NoCall
    /\ returned = <<>>
    /\ timeout = DefaultTimeout
    /\ waited = <<>>
    /\ handler = NoHandler
    /\ calls = <<>>
    /\ stdin_attrs = {}
    /\ TERMIOS = Uninit

\* poll_input when every byte of the stream is already readable: poll()
\* returns 1 while a byte is left and 0 (after the timeout) when none is
poll_input_available ==
    /\ last.res.kind # "Panic"
    /\ Len(returned) <= Len(events)
    /\ \E checks \in OverflowChecks :
          /\ last' = poll_input_call(IF pos <= Len(src) THEN 1 ELSE 0, checks)
          /\ pos' = last'.res.next
          /\ returned' = Append(returned, last'.res)
          /\ waited' = <<[handed |-> as_c_int(timeout),
                          result |-> IF pos <= Len(src) THEN 1 ELSE 0]>>
    /\ UNCHANGED <<string, src, decoded, target_os, records, events, timeout, handler, calls, stdin_attrs, TERMIOS>>

SpecStream == InitStream /\ [][poll_input_available]_vars

-----------------------------------------------------------------------------
(* parse_event on two sources built from the same bytes *)

\* The sources that hold bytes only (a source built from a buffer answers
\* None after its last byte and never fails)
Buffers == {s \in Inputs : \A i \in 1..Len(s) : IsByte(s[i])}

\* A second source that goes on where an earlier one stopped
shared_source(bytes, earlier) == earlier

\* bytes.map(|x| Ok(x)): a source built from a buffer stands at its first
\* byte, whatever an earlier source over the same bytes has consumed
new_source(bytes, earlier) == 1

\* let item = source.next().unwrap().unwrap(); parse_event(item, source):
\* the result and the number of bytes the source has given
decode(bytes, start, checks) ==
    LET item == Item(bytes, start)
        r    == IF IsByte(item)
                THEN parse_event(item, bytes, Advance(bytes, start), checks)
                ELSE Panic(start)
    IN  [r EXCEPT !.next = r.next - start]

InitTwice ==
    /\ string = <<>>
    /\ decoded = <<>>
    /\ target_os = "unix"
    /\ records = <<>>
    /\ events = <<>>
    /\ src \in Buffers
    /\ pos = 1
    /\ last = NoCall
    /\ returned = <<>>
    /\ timeout = DefaultTimeout
    /\ waited = <<>>
    /\ handler = NoHandler
    /\ calls = <<>>
    /\ stdin_attrs = {}
    /\ TERMIOS = Uninit

\* The same build of parse_event decodes the buffer through one source and
\* then through another
parse_event_twice ==
    /\ returned = <<>>
    /\ \E checks \in OverflowChecks :
          LET first  == decode(src, new_source(src, 1), checks)
              second == decode(src, new_source(src, 1 + first.next), checks)
          IN  /\ returned' = <<first, second>>
              /\ last' = [op |-> "parse_event", first |-> src[1], start |-> 2,
                          res |-> [returned'[2] EXCEPT !.next = 1 + returned'[2].next]]
              /\ pos' = last'.res.next
    /\ UNCHANGED <<string, src, decoded, target_os, records, events, timeout, waited, handler, calls, stdin_attrs, TERMIOS>>

SpecTwice == InitTwice /\ [][parse_event_twice]_vars

-----------------------------------------------------------------------------
(* poll_input with the caller's timeout *)

\* Timeouts in ms as <<ms div 2^16, ms mod 2^16>>: 0, 100, 2^31 - 1, 2^31,
\* 2^32 - 1, 2^32 and 2^32 + 5
TimeoutSample ==
    {<<0, 0>>, <<0, 100>>, <<32767, 65535>>, <<32768, 0>>, <<65535, 65535>>,
     <<65536, 0>>, <<65536, 5>>}

\* What is readable on stdin: nothing, a character, two, an arrow key
WaitInputs == {<<>>, <<97>>, <<97, 98>>, <<ESC, 91, 65>>}

\* What waits in the console buffer: nothing, a key press, and a focus
\* record behind it
WaitRecords ==
    {<<>>, <<KeyEventRecord(1, 65, 97, 0)>>,
     <<KeyEventRecord(1, 65, 97, 0), OtherRecord(16)>>}

InitWait ==
    /\ string = <<>>
    /\ events = <<>>
    /\ returned = <<>>
    /\ timeout \in TimeoutSample
    /\ waited = <<>>
    /\ handler = NoHandler
    /\ calls = <<>>
    /\ stdin_attrs = {}
    /\ TERMIOS = Uninit
    /\ pos = 1
    /\ last = NoCall
    /\ decoded = <<>>
    /\ \/ target_os = "unix" /\ src \in WaitInputs /\ records = <<>>
       \/ target_os = "windows" /\ src = <<>> /\ records \in WaitRecords

SpecWait == InitWait /\ [][Next]_vars

-----------------------------------------------------------------------------
(* Handler (lib.rs) and RawModeHandler (control.rs) *)

\* A call the handler made: func(arg), enable_raw_mode() (arg TRUE) or
\* disable_raw_mode() (arg FALSE), and whether it returned Ok
Call(fn, arg, ok) == [fn |-> fn, arg |-> arg, ok |-> ok]

\* What an operation leaves behind: the handler, the calls made so far and
\* "Ok", "Err" or "Panic" (expect on an Err)
Done(h, cs, kind) == [handler |-> h, calls |-> cs, kind |-> kind]

\* The result of a handler operation as the result of the last call: Ok(()),
\* Err(e), or the panic of expect
HandlerResult(kind) ==
    IF kind = "Ok" THEN OkChar(0, 1) ELSE IF kind = "Err" THEN Failure("Io", 1) ELSE Panic(1)

\* Handler { enabled: true, func }
Handler_enabled == [kind |-> "Handler", enabled |-> TRUE]

\* Handler::set: if self.enabled != set { (self.func)(set)?; } Ok(())
Handler_set_call(h, cs, set, ok) ==
    IF h.enabled # set
    THEN Done(h, Append(cs, Call("func", set, ok)), IF ok THEN "Ok" ELSE "Err")
    ELSE Done(h, cs, "Ok")

\* Handler::get
Handler_get(h) == h.enabled

\* Drop for Handler: self.disable().expect(..)
Handler_drop_call(h, cs, ok) ==
    LET r == Handler_set_call(h, cs, FALSE, ok)
    IN  Done(NoHandler, r.calls, IF r.kind = "Ok" THEN "Ok" ELSE "Panic")

\* Handler::new: the handler is built enabled, then handler.set(true)?; an
\* Err leaves the function through `?`, which drops the handler
Handler_new_call(cs, ok, ok_drop) ==
    LET r == Handler_set_call(Handler_enabled, cs, TRUE, ok)
    IN  IF r.kind = "Ok" THEN Done(r.handler, r.calls, "Ok")
        ELSE LET dropped == Handler_drop_call(r.handler, r.calls, ok_drop)
             IN  Done(NoHandler, dropped.calls,
                      IF dropped.kind = "Panic" THEN "Panic" ELSE "Err")

\* A handler operation has run: `first` is its bool argument (1 for true)
HandlerStep(op, arg, r) ==
    /\ handler' = r.handler
    /\ calls' = r.calls
    /\ last' = [op |-> op, first |-> IF arg THEN 1 ELSE 0, start |-> 1,
                res |-> HandlerResult(r.kind)]
    /\ UNCHANGED <<string, src, pos, decoded, target_os, records, events, returned,
                   timeout, waited, stdin_attrs, TERMIOS>>

InitHandler ==
    /\ string = <<>>
    /\ src = <<>>
    /\ pos = 1
    /\ last = NoCall
    /\ decoded = <<>>
    /\ target_os \in {"unix", "windows"}
    /\ records = <<>>
    /\ events = <<>>
    /\ returned = <<>>
    /\ timeout = DefaultTimeout
    /\ waited = <<>>
    /\ handler = NoHandler
    /\ calls = <<>>
    /\ stdin_attrs = {}
    /\ TERMIOS = Uninit

\* The process goes on: no panic so far, and calls left within the bound
HandlerRuns == last.res.kind # "Panic" /\ Len(calls) < MaxCalls

Handler_new ==
    /\ HandlerRuns
    /\ handler = NoHandler
    /\ \E ok \in BOOLEAN, ok_drop \in BOOLEAN :
          HandlerStep("Handler::new", TRUE, Handler_new_call(calls, ok, ok_drop))

Handler_enable ==
    /\ HandlerRuns
    /\ handler.kind = "Handler"
    /\ \E ok \in BOOLEAN :
          HandlerStep("Handler::enable", TRUE, Handler_set_call(handler, calls, TRUE, ok))

Handler_disable ==
    /\ HandlerRuns
    /\ handler.kind = "Handler"
    /\ \E ok \in BOOLEAN :
          HandlerStep("Handler::disable", FALSE, Handler_set_call(handler, calls, FALSE, ok))

Handler_set ==
    /\ HandlerRuns
    /\ handler.kind = "Handler"
    /\ \E set \in BOOLEAN, ok \in BOOLEAN :
          HandlerStep("Handler::set", set, Handler_set_call(handler, calls, set, ok))

Handler_drop ==
    /\ HandlerRuns
    /\ handler.kind = "Handler"
    /\ \E ok \in BOOLEAN :
          HandlerStep("Handler::drop", FALSE, Handler_drop_call(handler, calls, ok))

NextHandler ==
    Handler_new \/ Handler_enable \/ Handler_disable \/ Handler_set \/ Handler_drop

SpecHandler == InitHandler /\ [][NextHandler]_vars

\* RawModeHandler::set without the early return of an unchanged state
RawModeHandler_set_always(h, cs, raw, ok) ==
    LET fn == IF raw THEN "enable_raw_mode" ELSE "disable_raw_mode"
    IN  IF ok THEN Done([h EXCEPT !.enabled = raw], Append(cs, Call(fn, raw, TRUE)), "Ok")
        ELSE Done(h, Append(cs, Call(fn, raw, FALSE)), "Err")

\* RawModeHandler::set assigning self.enabled before the OS call has returned
RawModeHandler_set_eager(h, cs, raw, ok) ==
    LET fn == IF raw THEN "enable_raw_mode" ELSE "disable_raw_mode"
    IN  IF h.enabled = raw THEN Done(h, cs, "Ok")
        ELSE Done([h EXCEPT !.enabled = raw], Append(cs, Call(fn, raw, ok)),
                  IF ok THEN "Ok" ELSE "Err")

\* RawModeHandler::set: return Ok(()) when self.enabled == raw; otherwise
\* enable_raw_mode()? or disable_raw_mode()?, then self.enabled = raw
RawModeHandler_set_call(h, cs, raw, ok) ==
    LET fn == IF raw THEN "enable_raw_mode" ELSE "disable_raw_mode"
    IN  IF h.enabled = raw THEN Done(h, cs, "Ok")
        ELSE IF ok
        THEN Done([h EXCEPT !.enabled = raw], Append(cs, Call(fn, raw, TRUE)), "Ok")
        ELSE Done(h, Append(cs, Call(fn, raw, FALSE)), "Err")

\* RawModeHandler::get
RawModeHandler_get(h) == h.enabled

\* RawModeHandler::new: enable_raw_mode()?; Ok(Self { enabled: true })
RawModeHandler_new_call(cs, ok) ==
    IF ok
    THEN Done([kind |-> "RawModeHandler", enabled |-> TRUE],
              Append(cs, Call("enable_raw_mode", TRUE, TRUE)), "Ok")
    ELSE Done(NoHandler, Append(cs, Call("enable_raw_mode", TRUE, FALSE)), "Err")

\* Drop for RawModeHandler: self.disable().expect(..)
RawModeHandler_drop_call(h, cs, ok) ==
    LET r == RawModeHandler_set_call(h, cs, FALSE, ok)
    IN  Done(NoHandler, r.calls, IF r.kind = "Ok" THEN "Ok" ELSE "Panic")

RawModeHandler_new ==
    /\ HandlerRuns
    /\ handler = NoHandler
    /\ \E ok \in BOOLEAN :
          HandlerStep("RawModeHandler::new", TRUE, RawModeHandler_new_call(calls, ok))

RawModeHandler_enable ==
    /\ HandlerRuns
    /\ handler.kind = "RawModeHandler"
    /\ \E ok \in BOOLEAN :
          HandlerStep("RawModeHandler::enable", TRUE,
                      RawModeHandler_set_call(handler, calls, TRUE, ok))

RawModeHandler_disable ==
    /\ HandlerRuns
    /\ handler.kind = "RawModeHandler"
    /\ \E ok \in BOOLEAN :
          HandlerStep("RawModeHandler::disable", FALSE,
                      RawModeHandler_set_call(handler, calls, FALSE, ok))

RawModeHandler_set ==
    /\ HandlerRuns
    /\ handler.kind = "RawModeHandler"
    /\ \E raw \in BOOLEAN, ok \in BOOLEAN :
          HandlerStep("RawModeHandler::set", raw,
                      RawModeHandler_set_call(handler, calls, raw, ok))

RawModeHandler_drop ==
    /\ HandlerRuns
    /\ handler.kind = "RawModeHandler"
    /\ \E ok \in BOOLEAN :
          HandlerStep("RawModeHandler::drop", FALSE,
                      RawModeHandler_drop_call(handler, calls, ok))

NextRawMode ==
    \/ RawModeHandler_new
    \/ RawModeHandler_enable
    \/ RawModeHandler_disable
    \/ RawModeHandler_set
    \/ RawModeHandler_drop

SpecRawMode == InitHandler /\ [][NextRawMode]_vars

-----------------------------------------------------------------------------
(* AltScreenHandler (ansi.rs) *)

\* print!("{ALT_SCREEN_ENTER}") (arg TRUE) or print!("{ALT_SCREEN_EXIT}")
\* (arg FALSE) and io::stdout().flush(), and whether the flush returned Ok
AltScreenPrint(alt, ok) ==
    Call(IF alt THEN "ALT_SCREEN_ENTER" ELSE "ALT_SCREEN_EXIT", alt, ok)

\* AltScreenHandler::set: return Ok(()) when self.enabled == alt; otherwise
\* print, flush()?, then self.enabled = alt
AltScreenHandler_set_call(h, cs, alt, ok) ==
    IF h.enabled = alt THEN Done(h, cs, "Ok")
    ELSE IF ok
    THEN Done([h EXCEPT !.enabled = alt], Append(cs, AltScreenPrint(alt, TRUE)), "Ok")
    ELSE Done(h, Append(cs, AltScreenPrint(alt, FALSE)), "Err")

\* AltScreenHandler::new: print ALT_SCREEN_ENTER, flush()?, Ok(Self { enabled: true })
AltScreenHandler_new_call(cs, ok) ==
    IF ok
    THEN Done([kind |-> "AltScreenHandler", enabled |-> TRUE],
              Append(cs, AltScreenPrint(TRUE, TRUE)), "Ok")
    ELSE Done(NoHandler, Append(cs, AltScreenPrint(TRUE, FALSE)), "Err")

\* A drop that leaves the screen as it is
AltScreenHandler_drop_forget(h, cs, ok) == Done(NoHandler, cs, "Ok")

\* Drop for AltScreenHandler: self.disable().expect(..)
AltScreenHandler_drop_call(h, cs, ok) ==
    LET r == AltScreenHandler_set_call(h, cs, FALSE, ok)
    IN  Done(NoHandler, r.calls, IF r.kind = "Ok" THEN "Ok" ELSE "Panic")

AltScreenHandler_new ==
    /\ HandlerRuns
    /\ handler = NoHandler
    /\ \E ok \in BOOLEAN :
          HandlerStep("AltScreenHandler::new", TRUE, AltScreenHandler_new_call(calls, ok))

AltScreenHandler_enable ==
    /\ HandlerRuns
    /\ handler.kind = "AltScreenHandler"
    /\ \E ok \in BOOLEAN :
          HandlerStep("AltScreenHandler::enable", TRUE,
                      AltScreenHandler_set_call(handler, calls, TRUE, ok))

AltScreenHandler_disable ==
    /\ HandlerRuns
    /\ handler.kind = "AltScreenHandler"
    /\ \E ok \in BOOLEAN :
          HandlerStep("AltScreenHandler::disable", FALSE,
                      AltScreenHandler_set_call(handler, calls, FALSE, ok))

AltScreenHandler_set ==
    /\ HandlerRuns
    /\ handler.kind = "AltScreenHandler"
    /\ \E alt \in BOOLEAN, ok \in BOOLEAN :
          HandlerStep("AltScreenHandler::set", alt,
                      AltScreenHandler_set_call(handler, calls, alt, ok))

AltScreenHandler_drop ==
    /\ HandlerRuns
    /\ handler.kind = "AltScreenHandler"
    /\ \E ok \in BOOLEAN :
          HandlerStep("AltScreenHandler::drop", FALSE,
                      AltScreenHandler_drop_call(handler, calls, ok))

\* A program that holds one guard at a time, of either kind
NextGuards ==
    \/ NextRawMode
    \/ AltScreenHandler_new
    \/ AltScreenHandler_enable
    \/ AltScreenHandler_disable
    \/ AltScreenHandler_set
    \/ AltScreenHandler_drop

SpecGuards == InitHandler /\ [][NextGuards]_vars

-----------------------------------------------------------------------------
(* ansi.rs: the cursor movements *)

\* num: u16 values with one to five digits
CursorSample == (0..100) \cup {255, 256, 999, 1000, 65535}

\* format!("\x1b[{num}A")
move_cursor_up(num) == <<ESC, 91>> \o Digits(num) \o <<65>>

\* format!("\x1b[{num}B")
move_cursor_down(num) == <<ESC, 91>> \o Digits(num) \o <<66>>

\* format!("\x1b[{num}C")
move_cursor_right(num) == <<ESC, 91>> \o Digits(num) \o <<67>>

\* format!("\x1b[{num}A")
move_cursor_left(num) == <<ESC, 91>> \o Digits(num) \o <<65>>

\* A caller formats the four movements by num: up, down, right, left
move_cursor ==
    /\ returned = <<>>
    /\ \E num \in CursorSample :
          /\ returned' = <<move_cursor_up(num), move_cursor_down(num),
                           move_cursor_right(num), move_cursor_left(num)>>
          /\ last' = [op |-> "move_cursor", first |-> num, start |-> 1,
                      res |-> OkChar(0, 1)]
    /\ UNCHANGED <<string, src, pos, decoded, target_os, records, events, timeout,
                   waited, handler, calls, stdin_attrs, TERMIOS>>

SpecCursor == InitHandler /\ [][move_cursor]_vars

-----------------------------------------------------------------------------
(* unix.rs: the decoder of the other Unix snapshot.  parse_utf8_char,
   parse_numbered_escape and parse_xterm_mouse of unix.rs compute what those
   of unix_input.rs compute (they differ in the spelling of a loop condition,
   of a literal and of `return None`), and are not repeated. *)

\* The button and action selected by cb & 0b11 and cb & 0x40 in unix.rs:
\* both branches of arm 0 are WheelUp
x10_button_unix(cb) ==
    LET low   == cb % 4
        wheel == BitSet(cb, 6)
    IN  CASE low = 0 -> <<"WheelUp", "Press">>
          [] low = 1 -> IF wheel THEN <<"WheelDown", "Press">> ELSE <<"Middle", "Press">>
          [] low = 2 -> IF wheel THEN <<"WheelLeft", "Press">> ELSE <<"Right", "Press">>
          [] low = 3 -> IF wheel THEN <<"WheelRight", "Press">> ELSE <<"Unknown", "Release">>

\* unix.rs parse_x10_mouse.  `let cb = next() as i8 - 32;` is a subtraction
\* of i8: below -128 it panics with overflow checks and wraps without them;
\* cb & 0b11 and cb & 0x40 read the bits of the two's complement value
parse_x10_mouse_unix(s, p, checks) ==
    LET b0 == Item(s, p)
        p1 == Advance(s, p)
        b1 == Item(s, p1)
        p2 == Advance(s, p1)
        b2 == Item(s, p2)
        p3 == Advance(s, p2)
        as_i8 == IF b0 >= 128 THEN b0 - 256 ELSE b0
    IN  IF ~IsByte(b0) THEN Panic(p1)
        ELSE IF as_i8 - 32 < 0 - 128 /\ checks THEN Panic(p1)
        ELSE IF ~IsByte(b1) THEN Panic(p2)
        ELSE IF ~IsByte(b2) THEN Panic(p3)
        ELSE LET cb == (as_i8 - 32 + 512) % 256
                 cx == saturating_sub(b1, 33)
                 cy == saturating_sub(b2, 33)
                 ba == x10_button_unix(cb)
             IN  OkEvent(MouseEvent(NONE, ba[1], ba[2], cx, cy), p3)

\* unix.rs parse_csi_sequence
parse_csi_sequence_unix(s, p, checks) ==
    LET it == Item(s, p)
        p1 == Advance(s, p)
    IN  IF it = 91
        THEN LET val == Item(s, p1)
                 p2  == Advance(s, p1)
             IN  IF val \in 65..69 THEN OkEvent(linux_fkey(val), p2)
                 ELSE Failure("Other", p2)
        ELSE IF it \in CsiKeyFinal THEN OkEvent(csi_key(it), p1)
        ELSE IF it = 60 THEN parse_xterm_mouse(s, p1)
        ELSE IF it = 77 THEN parse_x10_mouse_unix(s, p1, checks)
        ELSE IF it \in 48..57 THEN parse_numbered_escape(s, p1, it, checks)
        ELSE IF it = NoByte THEN OkEvent(csi_no_byte, p1)
        ELSE Failure("Other", p1)

\* unix.rs parse_ansi_sequence
parse_ansi_sequence_unix(s, p, checks) ==
    LET it == Item(s, p)
        p1 == Advance(s, p)
    IN  IF it = NoByte THEN OkEvent(ansi_no_byte, p1)
        ELSE IF it = 79
        THEN LET val == Item(s, p1)
                 p2  == Advance(s, p1)
             IN  IF val \in Ss3Final THEN OkEvent(ss3_fkey(val), p2)
                 ELSE Failure("Other", p2)
        ELSE IF it = 91 THEN parse_csi_sequence_unix(s, p1, checks)
        ELSE IF it = IoErr THEN Failure("Other", p1)
        ELSE IF it \in AltTable THEN OkEvent(alt_key(it), p1)
        ELSE LET r == parse_utf8_char(it, s, p1) IN
             IF r.kind = "Ok"
             THEN OkEvent(KeyEvent(Key("Char", r.ch), "Press",
                                   with_alt(with_shift(NONE, is_uppercase(r.ch)), TRUE)),
                          r.next)
             ELSE r

\* unix.rs try_parse_event
try_parse_event(item, s, p, checks) ==
    IF item = ESC THEN parse_ansi_sequence_unix(s, p, checks)
    ELSE IF item \in PlainTable THEN OkEvent(plain_key(item), p)
    ELSE LET r == parse_utf8_char(item, s, p) IN
         IF r.kind = "Ok"
         THEN OkEvent(KeyEvent(Key("Char", r.ch), "Press",
                               with_shift(NONE, is_uppercase(r.ch))),
                      r.next)
         ELSE r

\* The two snapshots called with the same first byte on the same source, in
\* the same build: `last` is the call of unix_input.rs parse_event,
\* `returned` holds what unix.rs try_parse_event returns.  The source goes on
\* from where parse_event stopped.
parse_event_snapshots ==
    /\ last.res.kind # "Panic"
    /\ IsByte(Item(src, pos))
    /\ \E checks \in OverflowChecks :
          /\ last' = poll_input_call(1, checks)
          /\ returned' = <<try_parse_event(Item(src, pos), src, Advance(src, pos), checks)>>
          /\ pos' = last'.res.next
    /\ UNCHANGED <<string, src, decoded, target_os, records, events, timeout, waited,
                   handler, calls, stdin_attrs, TERMIOS>>

\* The Unix builds of Init
InitSnapshots == Init /\ target_os = "unix"

SpecSnapshots == InitSnapshots /\ [][parse_event_snapshots]_vars

-----------------------------------------------------------------------------
(* unix.rs: Termios, TERMIOS, enable_raw_mode, disable_raw_mode *)

\* Flags of the attributes of a terminal (of c_iflag, c_oflag, c_lflag, c_cflag)
TermiosFlags == {"ICRNL", "OPOST", "ECHO", "ICANON", "CS8"}

\* What the struct termios of the C library holds after the flags: the control
\* characters and the speeds, as the speed the line is set to
RestSample == {"B9600", "B38400"}

\* The attributes of a terminal: the flags that are on, and the rest
Attributes == [flags : SUBSET TermiosFlags, rest : RestSample]

\* The bytes of the C struct that lie past the end of a Termios value
Beyond == "beyond"

\* struct Termios as tcgetattr fills it.  The four flags are c_uint and
\* ispeed/ospeed exist under cfg(target_os = "linux") only: on Linux the
\* struct is as large as the C struct termios; on macOS, where tcflag_t and
\* speed_t are unsigned long, its 36 bytes end after the flags, and most of
\* c_cc and the speeds are written past it
get_attributes(target, attrs) ==
    IF target = "macos" THEN [attrs EXCEPT !.rest = Beyond] ELSE attrs

\* The attributes tcsetattr installs from a Termios value: where the C struct
\* reaches past the value it reads the memory behind it
set_attributes(termios, behind) ==
    IF termios.rest = Beyond THEN [termios EXCEPT !.rest = behind] ELSE termios

\* cfmakeraw: input and output processing, echo and canonical mode off,
\* eight-bit characters on
cfmakeraw(termios) ==
    [termios EXCEPT !.flags = (@ \ {"ICRNL", "OPOST", "ECHO", "ICANON"}) \cup {"CS8"}]

\* `*TERMIOS`: the first dereference runs the closure, get_attributes(STDIN_FILENO)
\* giving Ok(orig_termios) or Err(errno); later ones return the stored value
TERMIOS_deref(cell, target, attrs, ok) ==
    IF cell.kind # "Uninit" THEN cell
    ELSE IF ok THEN [kind |-> "Ok", termios |-> get_attributes(target, attrs)]
    ELSE [kind |-> "Err", termios |-> {}]

\* The body shared by enable_raw_mode and disable_raw_mode: the copy of
\* *TERMIOS (`?` on its Err), made raw or not, handed to set_attributes; a
\* tcsetattr that fails leaves the attributes of stdin alone.  The log keeps
\* the attributes stdin had before each call.
raw_mode_call(fn, make_raw, ok_get, ok_set, behind) ==
    LET cell    == TERMIOS_deref(TERMIOS, target_os, stdin_attrs, ok_get)
        termios == IF make_raw THEN cfmakeraw(cell.termios) ELSE cell.termios
        ok      == cell.kind = "Ok" /\ ok_set
    IN  /\ TERMIOS' = cell
        /\ stdin_attrs' = IF ok THEN set_attributes(termios, behind) ELSE stdin_attrs
        /\ calls' = Append(calls, Call(fn, stdin_attrs, ok))
        /\ last' = [op |-> fn, first |-> IF make_raw THEN 1 ELSE 0, start |-> 1,
                    res |-> HandlerResult(IF ok THEN "Ok" ELSE "Err")]
        /\ UNCHANGED <<string, src, pos, decoded, target_os, records, events, returned,
                       timeout, waited, handler>>

\* The build is for Linux or for macOS (the two targets unix.rs has cfg for)
InitTermios ==
    /\ string = <<>>
    /\ src = <<>>
    /\ pos = 1
    /\ last = NoCall
    /\ decoded = <<>>
    /\ target_os \in {"linux", "macos"}
    /\ records = <<>>
    /\ events = <<>>
    /\ returned = <<>>
    /\ timeout = DefaultTimeout
    /\ waited = <<>>
    /\ handler = NoHandler
    /\ calls = <<>>
    /\ stdin_attrs \in Attributes
    /\ TERMIOS = Uninit

enable_raw_mode ==
    /\ Len(calls) < MaxCalls
    /\ \E ok_get \in BOOLEAN, ok_set \in BOOLEAN, behind \in RestSample :
          raw_mode_call("enable_raw_mode", TRUE, ok_get, ok_set, behind)

disable_raw_mode ==
    /\ Len(calls) < MaxCalls
    /\ \E ok_get \in BOOLEAN, ok_set \in BOOLEAN, behind \in RestSample :
          raw_mode_call("disable_raw_mode", FALSE, ok_get, ok_set, behind)

NextTermios == enable_raw_mode \/ disable_raw_mode

SpecTermios == InitTermios /\ [][NextTermios]_vars

-----------------------------------------------------------------------------
(* Properties: shared vocabulary *)

CtrlOnly == [shift |-> FALSE, alt |-> FALSE, ctrl |-> TRUE, meta |-> FALSE]

\* A Press of a key with the given modifiers, as an Event value
PressOf(name, arg, mods) ==
    [type |-> "Key", key |-> name, arg |-> arg, action |-> "Press",
     mods |-> mods, button |-> "None", col |-> 0, row |-> 0]

\* The k-th answer the iterator gave to the last call (k = 0 is the first)
Answer(k) == Item(src, last.start + k)

\* The position the iterator has after k answers of the last call
After(k) == IF last.start + k <= Len(src) + 1 THEN last.start + k ELSE Len(src) + 1

\* The last call was parse_event with ESC as its first byte
EscCall == last.op = "parse_event" /\ last.first = ESC

\* Bytes the last call pulled from the iterator, and answers it was given
Pulled == BytesPulled(src, last.start, last.res.next)

-----------------------------------------------------------------------------
(* C1 *)

\* C1: test_parse_utf8 never fails: every character of the string, encoded
\* as UTF-8 and fed one byte at a time, is returned by parse_utf8_char as
\* that scalar, in the original order, and each call pulls exactly
\* (encoded length - 1) bytes, so that the iterator stands right after the
\* bytes of the characters decoded so far.
C1_Utf8RoundTrip ==
    /\ last.res.kind # "Panic"
    /\ decoded = SubSeq(string, 1, Len(decoded))
    /\ pos = 1 + Len(str_bytes(decoded))
    /\ last.op = "parse_utf8_char" =>
          /\ last.res.kind = "Ok"
          /\ last.res.ch = string[Len(decoded)]
          /\ Pulled = Len(encode_utf8(string[Len(decoded)])) - 1
          /\ last.res.next - last.start = Pulled

\* A 3 byte and then a 4 byte character decoded one after the other
C1_Witness ==
    /\ decoded = <<8364, 128512>>
    /\ string = decoded
    /\ pos = Len(src) + 1
    /\ Pulled = 3

-----------------------------------------------------------------------------
(* C2 *)

\* C2: parse_utf8_char pulls at most 3 bytes from the source (4 bytes
\* examined with the first one), and a buffer of 4 bytes that is not valid
\* UTF-8 gives InvalidData without a further pull.
C2_AtMostThreePulled ==
    last.op = "parse_utf8_char" => Pulled <= 3

-----------------------------------------------------------------------------
(* C3 *)

\* Encoded length announced by a lead byte of a 2, 3 or 4 byte sequence
LeadLen(b) == IF b <= 223 THEN 2 ELSE IF b <= 239 THEN 3 ELSE 4

IsLead(b) == b >= 194 /\ b <= 244

\* The source answers None after k bytes, and k is fewer than the
\* continuation bytes the lead byte asks for
EndsAfter(k) ==
    /\ k < LeadLen(last.first) - 1
    /\ \A j \in 0..(k - 1) : IsByte(Answer(j))
    /\ Answer(k) = NoByte

\* C3: when the first byte is a lead byte of a 2, 3 or 4 byte sequence and
\* the source ends before the continuation bytes are all supplied,
\* parse_utf8_char returns the InvalidData error: no abort, no character.
C3_TruncatedIsInvalidData ==
    (last.op = "parse_utf8_char" /\ IsLead(last.first)) =>
        \A k \in 0..2 :
            EndsAfter(k) =>
                /\ last.res.kind = "Err"
                /\ last.res.err = "InvalidData"
                /\ last.res.next = After(k + 1)

\* A 4 byte lead byte, two continuation bytes, then the end of the source
C3_Witness ==
    /\ last.op = "parse_utf8_char"
    /\ last.first = 240
    /\ Answer(0) = 159 /\ Answer(1) = 159
    /\ EndsAfter(2)
    /\ last.res.err = "InvalidData"

-----------------------------------------------------------------------------
(* C4 *)

\* C4: when the first byte is ESC and the source has no byte at the next
\* read, parse_event returns Key(Escape, Press, NONE) after that single
\* read; later bytes of the source stay unread.
C4_BareEscape ==
    (EscCall /\ Answer(0) = NoByte) =>
        /\ last.res.kind = "Ok"
        /\ last.res.ev = PressOf("Escape", 0, NONE)
        /\ last.res.next = After(1)

\* ESC, nothing at the moment of the read, and a byte that arrives afterwards
C4_Witness ==
    /\ EscCall
    /\ Answer(0) = NoByte
    /\ IsByte(Answer(1))
    /\ last.res.ev.key = "Escape"
    /\ pos = last.start + 1

-----------------------------------------------------------------------------
(* C5 *)

\* The key the spec gives for the final byte of ESC [ X
ArrowOf(x) ==
    CASE x = 68 -> "Left" [] x = 67 -> "Right" [] x = 65 -> "Up"
      [] x = 66 -> "Down" [] x = 72 -> "Home" [] x = 70 -> "End"

\* C5: ESC [ X with X in D C A B H F is Key(Left/Right/Up/Down/Home/End,
\* Press, NONE), ESC [ [ X with X in A..E is Key(F(1..5), Press, NONE), and
\* exactly those bytes are consumed.
C5_CsiKeys ==
    (EscCall /\ Answer(0) = 91) =>
        /\ Answer(1) \in {68, 67, 65, 66, 72, 70} =>
              /\ last.res.kind = "Ok"
              /\ last.res.ev = PressOf(ArrowOf(Answer(1)), 0, NONE)
              /\ last.res.next = last.start + 2
        /\ (Answer(1) = 91 /\ Answer(2) \in 65..69) =>
              /\ last.res.kind = "Ok"
              /\ last.res.ev = PressOf("F", Answer(2) - 64, NONE)
              /\ last.res.next = last.start + 3

\* ESC [ D decoded as Left with a byte left unread behind it
C5_Witness ==
    /\ EscCall
    /\ Answer(0) = 91 /\ Answer(1) = 68
    /\ last.res.ev.key = "Left"
    /\ pos = last.start + 2
    /\ IsByte(Item(src, pos))

-----------------------------------------------------------------------------
(* C6 *)

RECURSIVE FinalAt(_)
\* Index of the first byte in 0x40..=0x7E at or after i, with only bytes
\* before it; 0 when the source has none
FinalAt(i) ==
    IF i > Len(src) \/ ~IsByte(Item(src, i)) THEN 0
    ELSE IF src[i] >= 64 /\ src[i] <= 126 THEN i
    ELSE FinalAt(i + 1)

\* The last call decoded ESC [ digit ... final
NumberedCall ==
    /\ EscCall
    /\ Answer(0) = 91
    /\ Answer(1) >= 48 /\ Answer(1) <= 57
    /\ FinalAt(last.start + 2) # 0

NumberedFinal == src[FinalAt(last.start + 2)]

\* The parameter bytes between ESC [ and the final byte, and their fields
NumberedParams == SubSeq(src, last.start + 1, FinalAt(last.start + 2) - 1)

NumberedFields == split(NumberedParams, 59)

\* A parameter is a non-empty string of decimal digits
IsNumber(f) == Len(f) > 0 /\ \A i \in 1..Len(f) : IsDigit(f[i])

\* The key the spec gives for the final byte of ESC [ 1 ; n T
ModifiedKeyOf(t) ==
    CASE t = 65 -> "Up" [] t = 66 -> "Down" [] t = 67 -> "Right"
      [] t = 68 -> "Left" [] t = 70 -> "End" [] t = 72 -> "Home"

\* C6: ESC [ 1 ; n T with T in A B C D F H and n in 1..=8 is Key(k, Press, m)
\* with k = Up/Down/Right/Left/End/Home and shift, alt, ctrl = bits 0, 1, 2
\* of n - 1, meta false; a first parameter other than 1 or a number of
\* parameters other than two is the ParseFailure error.
C6_ModifiedKeys ==
    (NumberedCall /\ NumberedFinal \in {65, 66, 67, 68, 70, 72}) =>
        /\ \A n \in 1..8 :
              NumberedParams = <<49, 59, 48 + n>> =>
                  /\ last.res.kind = "Ok"
                  /\ last.res.ev =
                        PressOf(ModifiedKeyOf(NumberedFinal), 0,
                                [shift |-> (n - 1) % 2 = 1,
                                 alt   |-> ((n - 1) \div 2) % 2 = 1,
                                 ctrl  |-> ((n - 1) \div 4) % 2 = 1,
                                 meta  |-> FALSE])
                  /\ last.res.next = last.start + 5
        /\ ( /\ \A i \in 1..Len(NumberedFields) : IsNumber(NumberedFields[i])
             /\ \/ DigitsValue(NumberedFields[1], 1, 0) # 1
                \/ Len(NumberedFields) # 2 ) =>
                  /\ last.res.kind = "Err"
                  /\ last.res.err = "Other"

-----------------------------------------------------------------------------
(* C7 *)

\* C7: ESC [ Z is a Tab key event with the shift modifier set, and differs
\* from the event of a plain Tab byte.
C7_ShiftTab ==
    (EscCall /\ Answer(0) = 91 /\ Answer(1) = 90) =>
        /\ last.res.kind = "Ok"
        /\ last.res.ev.key = "Tab"
        /\ last.res.ev.mods.shift
        /\ last.res.ev # PressOf("Char", 9, NONE)

-----------------------------------------------------------------------------
(* C8 *)

\* C8: after ESC O the byte b gives Key(F(1 + b - 'P'), Press, NONE) exactly
\* when b is P, Q, R or S; every other byte, and no byte, gives ParseFailure.
C8_Ss3Keys ==
    (EscCall /\ Answer(0) = 79) =>
        IF Answer(1) \in 80..83
        THEN /\ last.res.kind = "Ok"
             /\ last.res.ev = PressOf("F", 1 + Answer(1) - 80, NONE)
             /\ last.res.next = last.start + 2
        ELSE /\ last.res.kind = "Err"
             /\ last.res.err = "Other"

-----------------------------------------------------------------------------
(* C9 *)

\* A result with alt additionally set on the modifiers of its event
AltAdded(r) ==
    IF r.kind = "Ok" THEN [r EXCEPT !.ev.mods.alt = TRUE] ELSE r

\* C9: for every byte b other than O and [, ESC b ... decodes to what
\* b ... alone decodes to, with alt added to the modifiers; b = ESC and the
\* control bytes included.
C9_AltIsPlainPlusAlt ==
    (EscCall /\ IsByte(Answer(0)) /\ Answer(0) \notin {79, 91}) =>
        \E checks \in OverflowChecks :
            last.res = AltAdded(parse_event(Answer(0), src, last.start + 1, checks))

-----------------------------------------------------------------------------
(* C10 *)

\* C10: a first byte c in 0x01..=0x1A other than Tab and CR is
\* Key(Char(c + 0x60), Press, {ctrl}), 0x00 is Ctrl+' ', c in 0x1C..=0x1F is
\* Ctrl+Char(c + 24); none of them pulls a byte from the source.
C10_CtrlBytes ==
    last.op = "parse_event" =>
        /\ (last.first \in (1..26) \ {9, 13}) =>
              last.res = OkEvent(PressOf("Char", last.first + 96, CtrlOnly), last.start)
        /\ last.first = 0 =>
              last.res = OkEvent(PressOf("Char", 32, CtrlOnly), last.start)
        /\ last.first \in 28..31 =>
              last.res = OkEvent(PressOf("Char", last.first + 24, CtrlOnly), last.start)

\* Byte 0x03 decoded as Ctrl+'c' with the byte behind it left unread
C10_Witness ==
    /\ last.op = "parse_event"
    /\ last.first = 3
    /\ last.res.ev = PressOf("Char", 99, CtrlOnly)
    /\ pos = last.start
    /\ IsByte(Item(src, pos))

-----------------------------------------------------------------------------
(* C11 *)

\* The event the last call returned, NoEvent when it returned none
Returned == IF last.res.kind = "Ok" THEN last.res.ev ELSE NoEvent

\* C11: whichever decoder returns it (the Unix byte decoder or the Windows
\* record translator), an event Key(Char(c), _, m) with m.ctrl set has
\* c >= U+0020: a Ctrl chord is the folded printable character plus the
\* ctrl flag, never a C0 control code with the flag.
C11_CtrlCharIsPrintable ==
    (Returned.type = "Key" /\ Returned.key = "Char" /\ Returned.mods.ctrl) =>
        Returned.arg >= 32

\* The Windows translator returns Ctrl+'z' for a press of a key with no
\* named code, character 'z', while a ctrl key is held
C11_Witness ==
    /\ target_os = "windows"
    /\ last.op = "parse_key_event"
    /\ win_ctrl(records[last.start].control_key_state)
    /\ records[last.start].unicode_char = 122
    /\ Returned = PressOf("Char", 122, CtrlOnly)

-----------------------------------------------------------------------------
(* C12 *)

\* The last call was given ESC [ M and three bytes
X10Call ==
    /\ EscCall
    /\ Answer(0) = 91
    /\ Answer(1) = 77
    /\ \A k \in 2..4 : IsByte(Answer(k))

\* The 8-way table of Cb: the low two bits, without and with bit 0x40
X10Table(cb) ==
    IF (cb \div 64) % 2 = 0
    THEN <<<<"Left", "Press">>, <<"Middle", "Press">>, <<"Right", "Press">>,
           <<"Unknown", "Release">>>>[(cb % 4) + 1]
    ELSE <<<<"WheelUp", "Press">>, <<"WheelDown", "Press">>, <<"WheelLeft", "Press">>,
           <<"WheelRight", "Press">>>>[(cb % 4) + 1]

\* C12: ESC [ M followed by three raw bytes b0 >= 32, b1, b2 gives a Mouse
\* event with modifiers NONE whose button and action follow the 8-way table
\* on Cb = b0 - 32 (low two bits 0/1/2/3: Left/Middle/Right Press and
\* (Unknown, Release); with bit 0x40: WheelUp/WheelDown/WheelLeft/WheelRight
\* Press); the bytes (32, 38, 36) give Mouse(NONE, Left, Press, 5, 3).
C12_X10Mouse ==
    (X10Call /\ Answer(2) >= 32) =>
        /\ last.res.kind = "Ok"
        /\ last.res.next = After(5)
        /\ Returned.type = "Mouse"
        /\ Returned.mods = NONE
        /\ <<Returned.button, Returned.action>> = X10Table(Answer(2) - 32)
        /\ (Answer(2) = 32 /\ Answer(3) = 38 /\ Answer(4) = 36) =>
              Returned = MouseEvent(NONE, "Left", "Press", 5, 3)

\* A wheel report (Cb = 65: WheelDown) decoded with the byte behind it unread
C12_Witness ==
    /\ X10Call
    /\ Answer(2) = 97
    /\ Returned = MouseEvent(NONE, "WheelDown", "Press", 5, 3)
    /\ IsByte(Item(src, pos))

-----------------------------------------------------------------------------
(* C13 *)

RECURSIVE SgrFinalAt(_)
\* Index of the first 'M' or 'm' at or after i, with only bytes before it;
\* 0 when the source has none
SgrFinalAt(i) ==
    IF i > Len(src) \/ ~IsByte(Item(src, i)) THEN 0
    ELSE IF src[i] \in {77, 109} THEN i
    ELSE SgrFinalAt(i + 1)

\* The last call decoded ESC [ < ... M or ESC [ < ... m
SgrCall ==
    /\ EscCall
    /\ Answer(0) = 91
    /\ Answer(1) = 60
    /\ SgrFinalAt(last.start + 2) # 0

SgrFinalByte == src[SgrFinalAt(last.start + 2)]

\* The fields between ESC [ < and the final byte
SgrFields == split(SubSeq(src, last.start + 2, SgrFinalAt(last.start + 2) - 1), 59)

\* The value of a field of decimal digits
Decimal(f) == DigitsValue(f, 1, 0)

\* The first three fields are numbers in 0..=65535
SgrParsed ==
    /\ Len(SgrFields) >= 3
    /\ \A i \in 1..3 : IsNumber(SgrFields[i]) /\ Decimal(SgrFields[i]) <= 65535

Max0(n) == IF n > 0 THEN n ELSE 0

\* C13: mouse coordinates never underflow or wrap.  X10: column and row are
\* max(0, byte - 33) for every coordinate byte 0..=255.  SGR: they are
\* max(0, Cx - 1) and max(0, Cy - 1) for every parsed Cx, Cy in 0..=65535.
\* Every column and row returned is within 0..=65534, and a wire value of 0
\* yields 0.
C13_CoordinatesSaturate ==
    /\ X10Call =>
          /\ Returned.type = "Mouse"
          /\ Returned.col = Max0(Answer(3) - 33)
          /\ Returned.row = Max0(Answer(4) - 33)
    /\ (SgrCall /\ SgrParsed /\ Returned.type = "Mouse") =>
          /\ Returned.col = Max0(Decimal(SgrFields[2]) - 1)
          /\ Returned.row = Max0(Decimal(SgrFields[3]) - 1)
    /\ (X10Call \/ SgrCall) =>
          /\ Returned.col \in 0..65534
          /\ Returned.row \in 0..65534

\* An SGR report with Cx = 0 and Cy = 65535: column 0, row 65534
C13_Witness ==
    /\ SgrCall
    /\ Len(SgrFields) = 3
    /\ SgrFields[2] = <<48>>
    /\ SgrFields[3] = <<54, 53, 53, 51, 53>>
    /\ Returned.type = "Mouse"
    /\ Returned.col = 0
    /\ Returned.row = 65534

-----------------------------------------------------------------------------
(* C14 *)

\* n & mask = mask, for mask = 4, 8, 16
HasMask(n, mask) == (n \div mask) % 2 = 1

\* Cb with the bits of the masks 4, 8, 16 cleared
Unmodified(cb) ==
    cb - (IF HasMask(cb, 4) THEN 4 ELSE 0) - (IF HasMask(cb, 8) THEN 8 ELSE 0)
       - (IF HasMask(cb, 16) THEN 16 ELSE 0)

\* The button the spec gives for Cb without its modifier bits
SgrButtonOf(t) ==
    CASE t = 0 -> "Left" [] t = 1 -> "Middle" [] t = 2 -> "Right"
      [] t = 64 -> "WheelUp" [] t = 65 -> "WheelDown"
      [] t = 66 -> "WheelLeft" [] t = 67 -> "WheelRight"

\* C14: ESC [ < Cb ; Cx ; Cy T with decimal fields (in the range of the
\* 16-bit fields), where Cb with the bits 4, 8, 16 cleared is in
\* {0, 1, 2, 64, 65, 66, 67}, gives Mouse(m, button, action, Cx-1, Cy-1):
\* button Left/Middle/Right/WheelUp/WheelDown/WheelLeft/WheelRight for that
\* value, action Press for T = 'M' and Release for T = 'm', m.shift, m.alt,
\* m.ctrl the bits 4, 8, 16 of Cb.  ESC [ < 0;11;6 M gives
\* Mouse(NONE, Left, Press, 10, 5).
C14_SgrMouse ==
    /\ (SgrCall /\ Len(SgrFields) = 3 /\ SgrParsed
          /\ Unmodified(Decimal(SgrFields[1])) \in {0, 1, 2, 64, 65, 66, 67}) =>
          LET cb == Decimal(SgrFields[1]) IN
          last.res = OkEvent(
              MouseEvent([shift |-> HasMask(cb, 4), alt |-> HasMask(cb, 8),
                          ctrl |-> HasMask(cb, 16), meta |-> FALSE],
                         SgrButtonOf(Unmodified(cb)),
                         IF SgrFinalByte = 77 THEN "Press" ELSE "Release",
                         Max0(Decimal(SgrFields[2]) - 1),
                         Max0(Decimal(SgrFields[3]) - 1)),
              SgrFinalAt(last.start + 2) + 1)
    /\ (SgrCall /\ SgrFields = <<<<48>>, <<49, 49>>, <<54>>>> /\ SgrFinalByte = 77) =>
          Returned = MouseEvent(NONE, "Left", "Press", 10, 5)

\* ESC [ < 82;11;6 m: a release of the wheel-left code with ctrl held, the
\* byte behind the report left unread
C14_Witness ==
    /\ SgrCall
    /\ SgrFields = <<<<56, 50>>, <<49, 49>>, <<54>>>>
    /\ SgrFinalByte = 109
    /\ Returned = MouseEvent([shift |-> FALSE, alt |-> FALSE, ctrl |-> TRUE, meta |-> FALSE],
                             "WheelLeft", "Release", 10, 5)
    /\ IsByte(Item(src, pos))

-----------------------------------------------------------------------------
(* C15 *)

\* The key the spec gives for ESC [ N ~, NoEvent for a number without one
TildeKeyOf(n) ==
    IF n \in {1, 7} THEN PressOf("Home", 0, NONE)
    ELSE IF n = 2 THEN PressOf("Insert", 0, NONE)
    ELSE IF n = 3 THEN PressOf("Delete", 0, NONE)
    ELSE IF n \in {4, 8} THEN PressOf("End", 0, NONE)
    ELSE IF n = 5 THEN PressOf("PageUp", 0, NONE)
    ELSE IF n = 6 THEN PressOf("PageDown", 0, NONE)
    ELSE IF n \in 11..15 THEN PressOf("F", n - 10, NONE)
    ELSE IF n \in 17..21 THEN PressOf("F", n - 11, NONE)
    ELSE IF n \in 23..24 THEN PressOf("F", n - 12, NONE)
    ELSE NoEvent

\* The ParseFailure error returned right after the final byte of the sequence
NumberedFailure == Failure("Other", FinalAt(last.start + 2) + 1)

\* ESC [ N ~ with a single number N in 0..=255: its key, or ParseFailure
C15_SingleNumber ==
    (NumberedCall /\ NumberedFinal = 126 /\ Len(NumberedFields) = 1
        /\ IsNumber(NumberedFields[1]) /\ Decimal(NumberedFields[1]) <= 255) =>
        LET n == Decimal(NumberedFields[1]) IN
        last.res = IF TildeKeyOf(n) = NoEvent THEN NumberedFailure
                   ELSE OkEvent(TildeKeyOf(n), FinalAt(last.start + 2) + 1)

\* ESC [ N ; ... ~ with two or more numbers: ParseFailure
C15_SeveralNumbers ==
    (NumberedCall /\ NumberedFinal = 126 /\ Len(NumberedFields) >= 2
        /\ \A i \in 1..Len(NumberedFields) : IsNumber(NumberedFields[i])) =>
        last.res = NumberedFailure

\* C15: ESC [ N ~ with a single decimal number N in 0..=255 is
\* Key(k, Press, NONE) with k = Home for 1 and 7, Insert for 2, Delete for 3,
\* End for 4 and 8, PageUp for 5, PageDown for 6, F(N-10) for 11..=15,
\* F(N-11) for 17..=21, F(N-12) for 23..=24, and ParseFailure for every
\* other N; a '~' sequence with two or more semicolon-separated numbers
\* always yields ParseFailure and never a key event.
C15_TildeKeys == C15_SingleNumber /\ C15_SeveralNumbers

-----------------------------------------------------------------------------
(* C16 *)

\* A field that is no number, or a number above the range of its integer type
BadField(f, max) == ~IsNumber(f) \/ Decimal(f) > max

\* The payload of a numbered sequence is malformed: before '~' and before
\* A B C D F H the fields are bytes (0..=255), before 'M' they are three or
\* more 16-bit numbers; a modifier parameter of 0 is malformed too
NumberedMalformed ==
    \/ /\ NumberedFinal \in {126, 65, 66, 67, 68, 70, 72}
       /\ \E i \in 1..Len(NumberedFields) : BadField(NumberedFields[i], 255)
    \/ /\ NumberedFinal = 77
       /\ \/ \E i \in 1..Len(NumberedFields) : BadField(NumberedFields[i], 65535)
          \/ Len(NumberedFields) < 3
    \/ /\ NumberedFinal \in {65, 66, 67, 68, 70, 72}
       /\ NumberedFields = <<<<49>>, <<48>>>>

\* The payload of an SGR report is malformed: fewer than three fields, or one
\* of the first three is no 16-bit number
SgrMalformed ==
    \/ Len(SgrFields) < 3
    \/ \E i \in 1..3 : BadField(SgrFields[i], 65535)

\* C16: for every complete CSI sequence ESC [ digit ... terminator and every
\* complete SGR sequence ESC [ < ... (M|m) whose payload is malformed (an
\* empty field, a non-digit or non-ASCII byte, a number exceeding the
\* field's range such as 256 before '~' or 65536 in a mouse field, fewer
\* than three fields in a mouse report, a modifier parameter of 0 as in
\* ESC [ 1;0 D), parse_event returns the ParseFailure error; it never
\* aborts and never returns an event.
C16_MalformedIsParseFailure ==
    /\ (NumberedCall /\ NumberedMalformed) => last.res = NumberedFailure
    /\ (SgrCall /\ SgrMalformed) =>
          last.res = Failure("Other", SgrFinalAt(last.start + 2) + 1)

-----------------------------------------------------------------------------
(* C17 *)

\* The source answered None or an error inside a numbered CSI sequence, an
\* SGR report or the three bytes of an X10 report
TruncatedCall ==
    /\ EscCall
    /\ Answer(0) = 91
    /\ \/ Answer(1) >= 48 /\ Answer(1) <= 57 /\ FinalAt(last.start + 2) = 0
       \/ Answer(1) = 60 /\ SgrFinalAt(last.start + 2) = 0
       \/ Answer(1) = 77 /\ \E k \in 2..4 : ~IsByte(Answer(k))

\* C17: whenever the source reports no byte available (or an I/O error)
\* part-way through a numbered CSI sequence, an SGR mouse sequence or the
\* three X10 mouse bytes, poll_input/parse_event returns an Event or an
\* error to the caller; a truncated sequence never causes an abort.
C17_TruncatedNeverAborts ==
    TruncatedCall => last.res.kind \in {"Ok", "Err"}

-----------------------------------------------------------------------------
(* C18 *)

\* The button and action the spec gives for the Cb of a rxvt report
RxvtTable(cb) ==
    CASE cb = 32 -> <<"Left", "Press">>
      [] cb = 33 -> <<"Middle", "Press">>
      [] cb = 34 -> <<"Right", "Press">>
      [] cb = 35 -> <<"Unknown", "Release">>
      [] cb = 64 -> <<"Unknown", "Held">>
      [] cb \in {96, 97} -> <<"WheelUp", "Press">>

\* The last call decoded ESC [ Cb ; Cx ; Cy M with decimal fields, Cx and Cy
\* within the range of a column and a row
RxvtCall ==
    /\ NumberedCall
    /\ NumberedFinal = 77
    /\ Len(NumberedFields) = 3
    /\ \A i \in 1..3 : IsNumber(NumberedFields[i])
    /\ \A i \in 2..3 : Decimal(NumberedFields[i]) <= 65535

\* The same, with Cb within 16 bits too
RxvtCallInRange == RxvtCall /\ Decimal(NumberedFields[1]) <= 65535

\* The result the claim gives for the report
RxvtExpected ==
    LET cb == Decimal(NumberedFields[1]) IN
    IF cb \in {32, 33, 34, 35, 64, 96, 97}
    THEN OkEvent(MouseEvent(NONE, RxvtTable(cb)[1], RxvtTable(cb)[2],
                            Decimal(NumberedFields[2]), Decimal(NumberedFields[3])),
                 FinalAt(last.start + 2) + 1)
    ELSE NumberedFailure

\* C18: ESC [ Cb ; Cx ; Cy M with decimal fields and no '<' gives
\* Mouse(NONE, button, action, Cx, Cy), the coordinates unchanged, with
\* (Left, Press) for Cb 32, (Middle, Press) for 33, (Right, Press) for 34,
\* (Unknown, Release) for 35, (Unknown, Held) for 64, (WheelUp, Press) for 96
\* and 97; every other Cb yields ParseFailure.
C18_RxvtMouse == RxvtCall => last.res = RxvtExpected

\* The claim for Cb within 16 bits
C18_InRange == RxvtCallInRange => last.res = RxvtExpected

-----------------------------------------------------------------------------
(* C19 *)

\* A decimal number of at most 9 digits, which a u32 holds
IsSmallNumber(f) == IsNumber(f) /\ Len(f) <= 9

\* The modifier field of a kitty key event split at ':', <<>> when absent
KittySecond == IF Len(NumberedFields) = 2 THEN split(NumberedFields[2], 58) ELSE <<>>

\* The last call decoded ESC [ keycode [; modifier [: key_type]] u: decimal
\* numbers, the modifier one that a u32 holds
KittyCall ==
    /\ NumberedCall
    /\ NumberedFinal = 117
    /\ Len(NumberedFields) \in {1, 2}
    /\ IsNumber(NumberedFields[1])
    /\ Len(KittySecond) <= 2
    /\ Len(KittySecond) >= 1 => IsSmallNumber(KittySecond[1])
    /\ Len(KittySecond) = 2 => IsNumber(KittySecond[2])

\* The key_type of the event, 1 when it is absent
KittyType == IF Len(KittySecond) = 2 THEN Decimal(KittySecond[2]) ELSE 1

\* A Unicode scalar value: no surrogate, at most 0x10FFFF
Scalar(n) == n <= 1114111 /\ ~(n >= 55296 /\ n <= 57343)

\* C19: ESC [ keycode [; modifier [: key_type]] u gives
\* Key(Char(keycode), action, _) with action Press for key_type 1, Held for
\* 2, Release for 3, and Press when the key_type or the whole modifier field
\* is absent; a key_type outside 1..=3 or a keycode that is not a Unicode
\* scalar value (a surrogate, or above 0x10FFFF) yields ParseFailure.
C19_KittyKeys ==
    KittyCall =>
        IF KittyType \in 1..3 /\ Scalar(Decimal(NumberedFields[1]))
        THEN /\ last.res.kind = "Ok"
             /\ last.res.next = FinalAt(last.start + 2) + 1
             /\ Returned.type = "Key"
             /\ Returned.key = "Char"
             /\ Returned.arg = Decimal(NumberedFields[1])
             /\ Returned.action = <<"Press", "Held", "Release">>[KittyType]
        ELSE last.res = NumberedFailure

\* ESC [ 8364 ; 5 : 3 u: a Release of the euro sign
C19_Witness ==
    /\ KittyCall
    /\ NumberedParams = <<56, 51, 54, 52, 59, 53, 58, 51>>
    /\ Returned.key = "Char"
    /\ Returned.arg = 8364
    /\ Returned.action = "Release"

-----------------------------------------------------------------------------
(* C20 *)

\* The event the spec's tables give for a complete encoding
DocumentedEvent(bytes) ==
    CASE bytes = <<97>> -> PressOf("Char", 97, NONE)
      [] bytes = <<65>> -> PressOf("Char", 65, Modifiers_new(TRUE, FALSE, FALSE))
      [] bytes = <<195, 169>> -> PressOf("Char", 233, NONE)
      [] bytes = <<226, 130, 172>> -> PressOf("Char", 8364, NONE)
      [] bytes = <<3>> -> PressOf("Char", 99, CtrlOnly)
      [] bytes = <<13>> -> PressOf("Char", 13, NONE)
      [] bytes = <<ESC, 97>> -> PressOf("Char", 97, Modifiers_new(FALSE, TRUE, FALSE))
      [] bytes = <<ESC, 91, 65>> -> PressOf("Up", 0, NONE)
      [] bytes = <<ESC, 91, 90>> -> PressOf("Tab", 0, Modifiers_new(TRUE, FALSE, FALSE))
      [] bytes = <<ESC, 79, 80>> -> PressOf("F", 1, NONE)
      [] bytes = <<ESC, 91, 91, 65>> -> PressOf("F", 1, NONE)
      [] bytes = <<ESC, 91, 51, 126>> -> PressOf("Delete", 0, NONE)
      [] bytes = <<ESC, 91, 49, 59, 53, 67>> -> PressOf("Right", 0, CtrlOnly)
      [] bytes = <<ESC, 91, 77, 32, 38, 36>> -> MouseEvent(NONE, "Left", "Press", 5, 3)
      [] bytes = <<ESC, 91, 60, 48, 59, 49, 49, 59, 54, 77>> ->
             MouseEvent(NONE, "Left", "Press", 10, 5)
      [] bytes = <<ESC, 91, 51, 50, 59, 49, 49, 59, 54, 77>> ->
             MouseEvent(NONE, "Left", "Press", 11, 6)
      [] bytes = <<ESC, 91, 57, 55, 59, 49, 58, 51, 117>> ->
             [PressOf("Char", 97, NONE) EXCEPT !.action = "Release"]

\* The position in the stream right after the encodings of the first i events
EndOf(i) == 1 + Len(Stream(SubSeq(events, 1, i)))

\* The i-th call returned the i-th event of the stream and consumed exactly
\* the bytes of its encoding
InOrder(i) == returned[i] = OkEvent(DocumentedEvent(events[i]), EndOf(i))

\* The call after the last event returned TimedOut and consumed nothing
ThenTimedOut ==
    Len(returned) = Len(events) + 1 =>
        returned[Len(returned)] = Failure("TimedOut", Len(src) + 1)

\* C20: when the input stream is the concatenation of the complete encodings
\* of events e1..en (plain characters, control bytes and escape sequences of
\* the documented tables, none of them a bare ESC or bare ESC [) and all
\* bytes are available, n successive poll_input calls return e1..en in that
\* order, each call consuming exactly the bytes of its own event and none of
\* the next, and the following call returns TimedOut.
C20_StreamInOrder ==
    /\ \A i \in 1..Len(returned) : i <= Len(events) => InOrder(i)
    /\ ThenTimedOut

\* The claim for the streams without ESC [ Z
C20_WithoutShiftTab ==
    (\A i \in 1..Len(events) : events[i] # <<ESC, 91, 90>>) => C20_StreamInOrder

\* The framing alone: a call on ESC [ Z returns an event and consumes exactly
\* its three bytes, and the calls before and after it are as claimed
C20_Framing ==
    /\ \A i \in 1..Len(returned) : i <= Len(events) =>
          IF events[i] = <<ESC, 91, 90>>
          THEN returned[i].kind = "Ok" /\ returned[i].next = EndOf(i)
          ELSE InOrder(i)
    /\ ThenTimedOut

-----------------------------------------------------------------------------
(* C21 *)

-----------------------------------------------------------------------------
(* C22 *)

\* A step of the Unix poll_input: one timeout-bounded wait; when the wait
\* reports nothing available the call returns TimedOut and the source is
\* where it was; when the wait fails, or the read of the first byte fails,
\* the call returns the OS error
UnixPollStep ==
    /\ Len(waited') = 1
    /\ waited'[1].result = 0 =>
          /\ last'.res = Failure("TimedOut", pos)
          /\ pos' = pos
    /\ waited'[1].result < 0 =>
          /\ last'.res = Failure("Io", pos)
          /\ pos' = pos
    /\ (waited'[1].result >= 1 /\ Item(src, pos) = IoErr) =>
          /\ last'.res.kind = "Err"
          /\ last'.res.err = "Io"

-----------------------------------------------------------------------------
(* C23 *)

\* A step of the Windows poll_input: at most one record is read; an expired
\* wait gives TimedOut and reads none; a focus record that is read gives the
\* unsupported-record error, a key-up record a third error, neither an Event
WindowsPollStep ==
    /\ pos' \in {pos, pos + 1}
    /\ waited'[1].result = 258 =>
          /\ last'.res = Failure("TimedOut", pos)
          /\ pos' = pos
    /\ (pos' = pos + 1 /\ records[pos].event_type = 16) =>
          last'.res = Failure("InvalidData", pos + 1)
    /\ (pos' = pos + 1 /\ records[pos].event_type = 1 /\ records[pos].key_down = 0) =>
          /\ last'.res.kind = "Err"
          /\ last'.res.err \notin {"TimedOut", "InvalidData"}

\* C23: Windows poll_input reads at most one console record per call and
\* never returns an Event for a wait timeout, a focus-change record or a
\* key-up record: the wait expiry yields TimedOut (no record is read), a
\* focus record yields the unsupported-record error, a key-up record a third
\* error; the three error kinds are pairwise distinct.
C23_WindowsPollErrors == [][target_os = "windows" => WindowsPollStep]_vars

\* A key-up record has been read, with a key press waiting behind it: the
\* third error, and the key press still in the buffer
C23_Witness ==
    /\ target_os = "windows"
    /\ pos = 2
    /\ Len(records) >= 2
    /\ records[1].event_type = 1
    /\ records[1].key_down = 0
    /\ records[2].key_down = 1
    /\ last.res.kind = "Err"
    /\ last.res.err = "Other"

-----------------------------------------------------------------------------
(* C24 *)

\* The last call translated a key-down record
WinKeyCall ==
    /\ target_os = "windows"
    /\ last.op = "parse_key_event"
    /\ last.start <= Len(records)

\* The record the last call translated
WinRecord == records[last.start]

\* The named keys of the virtual-key codes, in the order the codes are listed
NamedCodes == <<8, 27, 33, 34, 35, 36, 37, 38, 39, 40, 45, 46>>
NamedKeys == <<"Backspace", "Escape", "PageUp", "PageDown", "End", "Home",
               "Left", "Up", "Right", "Down", "Insert", "Delete">>

ShiftOnly == [shift |-> TRUE, alt |-> FALSE, ctrl |-> FALSE, meta |-> FALSE]

\* C24: for a key-down record, codes 0x08, 0x09, 0x1B, 0x21..0x28, 0x2D, 0x2E
\* give Backspace, Tab, Escape, PageUp, PageDown, End, Home, Left, Up, Right,
\* Down, Insert, Delete; Tab with the shift bit 0x0010 gives Tab with the
\* shift modifier; every code v in 0x70..=0x87 gives F(v - 0x6F), which lies
\* in 1..=24; the action is always Press.
C24_NamedKeys ==
    WinKeyCall =>
        LET v == WinRecord.virtual_key_code
            st == WinRecord.control_key_state
        IN  /\ last.res.kind = "Ok"
            /\ Returned.type = "Key"
            /\ Returned.action = "Press"
            /\ \A i \in 1..Len(NamedCodes) :
                  v = NamedCodes[i] => Returned = PressOf(NamedKeys[i], 0, NONE)
            /\ v = 9 =>
                  Returned = PressOf("Tab", 0, IF HasMask(st, 16) THEN ShiftOnly ELSE NONE)
            /\ (v >= 112 /\ v <= 135) =>
                  /\ Returned = PressOf("F", v - 111, NONE)
                  /\ Returned.arg \in 1..24

\* The last function-key code, 0x87, translated to F24 while shift and a
\* ctrl key are held
C24_Witness ==
    /\ WinKeyCall
    /\ WinRecord.virtual_key_code = 135
    /\ WinRecord.control_key_state = 24
    /\ Returned = PressOf("F", 24, NONE)

-----------------------------------------------------------------------------
(* C25 *)

\* The codes with an arm of their own in parse_key_event
TableCodes == {8, 9, 13, 27, 33, 34, 35, 36, 37, 38, 39, 40, 45, 46} \cup (112..135)

\* A 16-bit value that is a Unicode scalar value: not a surrogate
ScalarU16(u) == u < 55296 \/ u > 57343

AsciiLetter(c) == c \in (65..90) \cup (97..122)

\* C25: for a key-down record whose code is not in the named-key table the
\* result is Key(Char(c), Press, m), c the record's character (a space when
\* the 16-bit value is not a scalar value), m = {ctrl} exactly when bit 0x0008
\* or 0x0004 of the control-key state is set and c is an ASCII letter, and
\* NONE otherwise.
C25_FallbackChar ==
    (WinKeyCall /\ WinRecord.virtual_key_code \notin TableCodes) =>
        LET u == WinRecord.unicode_char
            st == WinRecord.control_key_state
            c == IF ScalarU16(u) THEN u ELSE 32
            m == IF (HasMask(st, 8) \/ HasMask(st, 4)) /\ AsciiLetter(c)
                 THEN CtrlOnly ELSE NONE
        IN  last.res = OkEvent(PressOf("Char", c, m), last.start + 1)

\* A press with a surrogate as its character while a ctrl key is held: a
\* space without modifiers
C25_Witness ==
    /\ WinKeyCall
    /\ WinRecord.virtual_key_code = 65
    /\ WinRecord.unicode_char = 55296
    /\ WinRecord.control_key_state = 8
    /\ Returned = PressOf("Char", 32, NONE)

-----------------------------------------------------------------------------
(* C26 *)

\* The calls the step has added to the log
NewCalls == SubSeq(calls', Len(calls) + 1, Len(calls'))

\* Handler::new has called func(true) once; it returned the handler when the
\* call succeeded, and the error without a handler when it failed
HandlerNewStep ==
    /\ Len(NewCalls) >= 1
    /\ NewCalls[1].fn = "func"
    /\ NewCalls[1].arg
    /\ Cardinality({i \in 1..Len(NewCalls) : NewCalls[i].arg}) = 1
    /\ NewCalls[1].ok => (last'.res.kind = "Ok" /\ handler'.kind = "Handler")
    /\ ~NewCalls[1].ok => (last'.res.kind # "Ok" /\ handler' = NoHandler)

\* The drop of a handler has called func(false)
HandlerDropStep ==
    /\ Len(NewCalls) = 1
    /\ NewCalls[1].fn = "func"
    /\ ~NewCalls[1].arg

\* C26: Handler::new(func) calls func(true) exactly once before it returns
\* the handler (and returns the error without a handler if that call fails);
\* dropping a handler that is enabled calls func(false).
C26_HandlerCallsFunc ==
    [][/\ last'.op = "Handler::new" => HandlerNewStep
       /\ (last'.op = "Handler::drop" /\ Handler_get(handler)) => HandlerDropStep]_vars

\* The half of C26 about the drop, alone
C26_DropCallsFunc ==
    [][(last'.op = "Handler::drop" /\ Handler_get(handler)) => HandlerDropStep]_vars

\* Handler::new has returned a handler and func has not been called
C26_NewWithoutCall ==
    /\ last.op = "Handler::new"
    /\ last.res.kind = "Ok"
    /\ handler.kind = "Handler"
    /\ calls = <<>>

-----------------------------------------------------------------------------
(* C27 *)

\* The last call was RawModeHandler::set(raw), enable() or disable()
RawModeSetOps == {"RawModeHandler::set", "RawModeHandler::enable", "RawModeHandler::disable"}

\* The handler state the step asks for
Asked == last'.first = 1

\* C27: RawModeHandler::set(raw) (and enable/disable) called when the handler
\* is already in state raw returns Ok, issues no enable_raw_mode or
\* disable_raw_mode call and leaves the handler state unchanged, whether or
\* not the OS call would fail.
C27_SetSameStateIsNoop ==
    [][(last'.op \in RawModeSetOps /\ RawModeHandler_get(handler) = Asked) =>
          /\ last'.res.kind = "Ok"
          /\ calls' = calls
          /\ handler' = handler]_vars

\* enable() on an enabled handler returned Ok without a call, after the
\* disable_raw_mode call of a disable() had failed
C27_Witness ==
    /\ last.op = "RawModeHandler::enable"
    /\ last.res.kind = "Ok"
    /\ handler.kind = "RawModeHandler"
    /\ handler.enabled
    /\ Len(calls) = 2
    /\ calls[2].fn = "disable_raw_mode"
    /\ ~calls[2].ok

-----------------------------------------------------------------------------
(* C28 *)

\* The wait handed to poll(2) is the timeout in whole milliseconds
UnixWaitIsTimeout ==
    /\ waited[1].handed >= 0
    /\ waited[1].handed \div 65536 = timeout[1]
    /\ waited[1].handed % 65536 = timeout[2]

\* The wait handed to WaitForSingleObject is the timeout in whole
\* milliseconds, and is not INFINITE
WindowsWaitIsTimeout ==
    /\ waited[1].handed = timeout
    /\ waited[1].handed # <<65535, 65535>>

\* C28: for every caller-supplied timeout the wait handed to the OS readiness
\* primitive equals the timeout in whole milliseconds; a millisecond count
\* above 2^31 - 1 (Unix) or equal to 2^32 - 1 modulo 2^32 (Windows) is not
\* turned into a negative or INFINITE wait.
C28_WaitIsTimeout ==
    Len(waited) = 1 =>
        IF target_os = "unix" THEN UnixWaitIsTimeout ELSE WindowsWaitIsTimeout

\* The claim for the timeouts below 2^31 ms
C28_BelowTwoTo31 ==
    (Len(waited) = 1 /\ timeout[1] < 32768) =>
        IF target_os = "unix" THEN UnixWaitIsTimeout ELSE WindowsWaitIsTimeout

\* A timeout of 2^31 ms was handed to poll(2) as a negative wait
C28_NegativeWait ==
    /\ target_os = "unix"
    /\ timeout = <<32768, 0>>
    /\ Len(waited) = 1
    /\ waited[1].handed < 0

-----------------------------------------------------------------------------
(* C29 *)

\* The last call decoded an SGR report with terminator t into an event
SgrDecoded(t) == SgrCall /\ SgrFinalByte = t /\ last.res.kind = "Ok"

\* Cb of the report with the modifier bits cleared; 0 when Cb is no number
SgrTrimmedCb == IF SgrParsed THEN Unmodified(Decimal(SgrFields[1])) ELSE 0

\* C29: every SGR sequence ESC [ < Cb ; Cx ; Cy m that decodes yields a Mouse
\* event with action Release; action Held is produced only for sequences
\* terminated by 'M' whose Cb with modifier bits cleared is 32..=35 (Left,
\* Middle, Right, and None for 35).
C29_LowercaseIsRelease ==
    /\ SgrDecoded(109) =>
          /\ Returned.type = "Mouse"
          /\ Returned.action = "Release"
    /\ (SgrCall /\ last.res.kind = "Ok" /\ Returned.action = "Held") =>
          /\ SgrFinalByte = 77
          /\ SgrParsed
          /\ SgrTrimmedCb \in 32..35
          /\ Returned.button = <<"Left", "Middle", "Right", "None">>[SgrTrimmedCb - 31]

\* The claim for every Cb that is not a held code, and Held for 'M'
C29_OutsideHeldCodes ==
    /\ (SgrDecoded(109) /\ SgrTrimmedCb \notin 32..35) =>
          /\ Returned.type = "Mouse"
          /\ Returned.action = "Release"
    /\ (SgrDecoded(77) /\ Returned.action = "Held") =>
          /\ SgrParsed
          /\ SgrTrimmedCb \in 32..35
          /\ Returned.button = <<"Left", "Middle", "Right", "None">>[SgrTrimmedCb - 31]

\* ESC [ < 32 ; 11 ; 6 m has been decoded as a held left button
C29_HeldOnLowercase ==
    /\ SgrDecoded(109)
    /\ SgrFields = <<<<51, 50>>, <<49, 49>>, <<54>>>>
    /\ Returned = MouseEvent(NONE, "Left", "Held", 10, 5)

-----------------------------------------------------------------------------
(* C30 *)

\* The last call decoded ESC [ keycode ; modifier ... u
KittyWithModifier ==
    /\ NumberedCall
    /\ NumberedFinal = 117
    /\ Len(NumberedFields) >= 2

\* The modifier field: the second parameter up to its first ':'
KittyModifier == split(NumberedFields[2], 58)[1]

\* A field that is a decimal number, with or without a sign in front
Numeric(f) == IsNumber(f) \/ (Len(f) > 1 /\ f[1] = 43 /\ IsNumber(Tail(f)))

\* C30: a kitty sequence ESC [ keycode ; modifier [: key_type] u that decodes
\* gives a Key event with Modifiers NONE whatever the modifier is; the field
\* is parsed, so a modifier that is not numeric makes the decode fail.
C30_KittyModifierIgnored ==
    KittyWithModifier =>
        /\ last.res.kind = "Ok" =>
              /\ Returned.type = "Key"
              /\ Returned.mods = NONE
        /\ ~Numeric(KittyModifier) => last.res.kind # "Ok"

\* ESC [ 97 ; 5 : 2 u (modifier 5: shift and ctrl in the kitty encoding plus
\* one) decoded as Held 'a' without modifiers
C30_Witness ==
    /\ KittyWithModifier
    /\ NumberedParams = <<57, 55, 59, 53, 58, 50>>
    /\ last.res.kind = "Ok"
    /\ Returned = KeyEvent(Key("Char", 97), "Held", NONE)

-----------------------------------------------------------------------------
(* C31 *)

HandlerSetOps == {"Handler::set", "Handler::enable", "Handler::disable"}

\* The last call was a successful disable(), or set(false)
HandlerDisabled ==
    /\ last.op \in HandlerSetOps
    /\ last.first = 0
    /\ last.res.kind = "Ok"

\* C31: after a successful enable/disable/set on a Handler, get() returns the
\* state that call asked for, and func is called only on a change of state:
\* after a successful disable(), a further disable() or the drop of the
\* handler does not call func(false) again.
C31_HandlerTracksState ==
    [][/\ (last'.op \in HandlerSetOps /\ last'.res.kind = "Ok") =>
             Handler_get(handler') = (last'.first = 1)
       /\ (HandlerDisabled /\ last'.op \in {"Handler::disable", "Handler::drop"}) =>
             calls' = calls]_vars

\* A second disable() after a successful one has called func(false) again,
\* and get() still returns true
C31_DisabledTwice ==
    /\ last.op = "Handler::disable"
    /\ last.res.kind = "Ok"
    /\ handler.kind = "Handler"
    /\ Handler_get(handler)
    /\ calls = <<Call("func", FALSE, TRUE), Call("func", FALSE, TRUE)>>

-----------------------------------------------------------------------------
(* C32 *)

\* The positions of the log with a call that succeeded
OkCalls == {i \in 1..Len(calls) : calls[i].ok}

\* The last OS call that succeeded was enable_raw_mode
LastOkIsEnable ==
    /\ OkCalls # {}
    /\ calls[CHOOSE i \in OkCalls : \A j \in OkCalls : j <= i].fn = "enable_raw_mode"

RawModeOps == {"RawModeHandler::new", "RawModeHandler::set",
               "RawModeHandler::enable", "RawModeHandler::disable"}

\* A step of new/enable/disable/set whose OS call failed returns the error
\* and leaves the handler as it was
FailedCallStep ==
    (/\ last'.op \in RawModeOps
     /\ Len(calls') = Len(calls) + 1
     /\ ~calls'[Len(calls')].ok) =>
        /\ last'.res.kind = "Err"
        /\ handler' = handler

\* C32: over every sequence of new/enable/disable/set calls of a
\* RawModeHandler in which OS calls may fail, get() is true exactly when the
\* last successful OS call was enable_raw_mode; a failing OS call returns
\* the error and leaves the handler state unchanged.
C32_RawModeTracksOs ==
    /\ [](handler.kind = "RawModeHandler" => (RawModeHandler_get(handler) <=> LastOkIsEnable))
    /\ [][FailedCallStep]_vars

\* A disabled handler whose enable() has just failed: get() is false, and
\* the last call that succeeded is the disable_raw_mode before it
C32_Witness ==
    /\ last.op = "RawModeHandler::enable"
    /\ last.res.kind = "Err"
    /\ handler.kind = "RawModeHandler"
    /\ ~RawModeHandler_get(handler)
    /\ Len(calls) = 3
    /\ calls[2] = Call("disable_raw_mode", FALSE, TRUE)
    /\ calls[3] = Call("enable_raw_mode", TRUE, FALSE)

-----------------------------------------------------------------------------
(* C33 *)

\* Every OS and print operation so far has succeeded
AllSucceeded == \A i \in 1..Len(calls) : calls[i].ok

\* Enter and exit operations alternate, the first one an enter
Alternating == \A i \in 1..Len(calls) : calls[i].arg = (i % 2 = 1)

DropOps == {"RawModeHandler::drop", "AltScreenHandler::drop"}

\* C33: for RawModeHandler and for AltScreenHandler, over every sequence of
\* new, enable, disable, set and a final drop in which all OS/print operations
\* succeed, the enter/exit operations strictly alternate starting with an
\* enter at construction and end with an exit; the drop issues the exit
\* exactly when the handler is enabled, so no terminal is left in raw mode or
\* the alternate screen after the drop.
C33_EnterExitAlternate ==
    /\ [](AllSucceeded =>
             /\ Alternating
             /\ (handler = NoHandler /\ calls # <<>>) => ~calls[Len(calls)].arg)
    /\ [][(last'.op \in DropOps /\ AllSucceeded') =>
             /\ handler' = NoHandler
             /\ (calls' # calls) = handler.enabled]_vars

\* An AltScreenHandler that was disabled and enabled again has been dropped:
\* enter, exit, enter, exit
C33_Witness ==
    /\ last.op = "AltScreenHandler::drop"
    /\ handler = NoHandler
    /\ AllSucceeded
    /\ Len(calls) = 4
    /\ \A i \in 1..4 : calls[i].fn = IF i % 2 = 1 THEN "ALT_SCREEN_ENTER" ELSE "ALT_SCREEN_EXIT"

-----------------------------------------------------------------------------
(* C34 *)

\* The four movements have been formatted
CursorCall == last.op = "move_cursor" /\ Len(returned) = 4

\* C34: move_cursor_left(num) returns ESC [ num D, and for every num the
\* strings of move_cursor_up, move_cursor_down, move_cursor_right and
\* move_cursor_left are pairwise different.
C34_CursorLeft ==
    CursorCall =>
        /\ returned[4] = <<ESC, 91>> \o Digits(last.first) \o <<68>>
        /\ \A i \in 1..4 : \A j \in 1..4 : i # j => returned[i] # returned[j]

\* The claim for the three other movements: ESC [ num A, B, C, different
C34_OtherThree ==
    CursorCall =>
        /\ \A i \in 1..3 : returned[i] = <<ESC, 91>> \o Digits(last.first) \o <<64 + i>>
        /\ \A i \in 1..3 : \A j \in 1..3 : i # j => returned[i] # returned[j]

\* move_cursor_left(5) has returned ESC [ 5 A, the string of move_cursor_up(5)
C34_LeftIsUp ==
    /\ CursorCall
    /\ last.first = 5
    /\ returned[4] = <<ESC, 91, 53, 65>>
    /\ returned[4] = returned[1]

-----------------------------------------------------------------------------
(* C35 *)

AltOnly == [shift |-> FALSE, alt |-> TRUE, ctrl |-> FALSE, meta |-> FALSE]

\* The bytes of a CSI sequence after ESC [: parameters, intermediates, final
CsiByte(b) == b >= 32 /\ b <= 126

\* ESC [ was read at k, k + 1 with no byte behind it at the time, and the
\* answers from there up to p - 1 are bytes of the CSI sequence that arrived
\* later
SplitCsiBefore(p) ==
    \E k \in 1..Len(src) :
        /\ k + 3 < p
        /\ p - 1 <= Len(src)
        /\ src[k] = ESC
        /\ src[k + 1] = 91
        /\ src[k + 2] = NoByte
        /\ \A i \in (k + 3)..(p - 1) : CsiByte(src[i])

\* C35: when the source yields ESC and '[' and then no byte at the moment of
\* the next read, parse_event returns Key(Char('['), Press, {alt}), not an
\* error and not an Escape key; the bytes of the sequence that arrive after
\* that read are decoded by the later calls as ordinary characters.
C35_SplitCsi ==
    /\ (EscCall /\ Answer(0) = 91 /\ Answer(1) = NoByte) =>
          last.res = OkEvent(PressOf("Char", 91, AltOnly), After(2))
    /\ (last.op = "parse_event" /\ SplitCsiBefore(last.start)) =>
          last.res = OkEvent(PressOf("Char", last.first,
                                     IF last.first \in 65..90 THEN ShiftOnly ELSE NONE),
                             last.start)

\* ESC [ 1 ; 5 D cut after ESC [: the last of its bytes, 'D', decoded as
\* Shift+'D' by the fifth call
C35_Witness ==
    /\ src = <<ESC, 91, NoByte, 49, 59, 53, 68>>
    /\ last.op = "parse_event"
    /\ last.start = 8
    /\ last.res = OkEvent(PressOf("Char", 68, ShiftOnly), 8)

-----------------------------------------------------------------------------
(* C36 *)

\* Both snapshots have decoded the event at the same place of the source
BothCalled == last.op = "parse_event" /\ Len(returned) = 1

\* The call went through ESC [ M to parse_x10_mouse
ReachesX10 == EscCall /\ Answer(0) = 91 /\ Answer(1) = 77

\* C36: for every first byte and every source content, try_parse_event of
\* unix.rs and parse_event of unix_input.rs return equal results (the same
\* event or the same error kind) and consume the same bytes, X10 mouse
\* reports ESC [ M b0 b1 b2 included.
C36_SnapshotsAgree == BothCalled => returned[1] = last.res

\* The two snapshots agree on every call that does not reach parse_x10_mouse
C36_AgreeOutsideX10 == (BothCalled /\ ~ReachesX10) => returned[1] = last.res

\* ESC [ M 0x20 0x21 0x24, a press of the left button in column 0, row 3:
\* unix_input.rs reports Left, unix.rs reports WheelUp
C36_LeftAsWheelUp ==
    /\ BothCalled
    /\ src = <<ESC, 91, 77, 32, 33, 36>>
    /\ last.res = OkEvent(MouseEvent(NONE, "Left", "Press", 0, 3), 7)
    /\ returned[1] = OkEvent(MouseEvent(NONE, "WheelUp", "Press", 0, 3), 7)

\* ESC [ M 0x90 ..: unix_input.rs returns an event, unix.rs panics on the
\* overflow of the i8 subtraction in a build with overflow checks
C36_OverflowPanic ==
    /\ BothCalled
    /\ ReachesX10
    /\ Answer(2) = 144
    /\ last.res.kind = "Ok"
    /\ returned[1].kind = "Panic"

-----------------------------------------------------------------------------
(* C37 *)

\* The scalar value whose UTF-8 encoding is the n answers of the source from
\* q on: one value or none
CharOf(q, n) ==
    LET b == SubSeq(src, q, q + n - 1)
        v == CASE n = 1 -> b[1]
               [] n = 2 -> (b[1] - 192) * 64 + (b[2] - 128)
               [] n = 3 -> (b[1] - 224) * 4096 + (b[2] - 128) * 64 + (b[3] - 128)
               [] n = 4 -> (b[1] - 240) * 262144 + (b[2] - 128) * 4096
                             + (b[3] - 128) * 64 + (b[4] - 128)
    IN  IF v >= 0 /\ Scalar(v) /\ encode_utf8(v) = b THEN {v} ELSE {}

\* The character that stands at q of the source
CharsAt(q) == UNION {CharOf(q, n) : n \in {m \in 1..4 : q >= 1 /\ q + m - 1 <= Len(src)}}

\* A byte that is neither ESC nor a control byte
PlainByte(b) == IsByte(b) /\ b > 31 /\ b # 127

\* Key(Char(ch), Press, m): m.shift exactly when ch is an uppercase letter,
\* m.alt as given, ctrl and meta clear
CharKey(ch, alt) ==
    KeyEvent(Key("Char", ch), "Press",
             [shift |-> ch \in Uppercase, alt |-> alt, ctrl |-> FALSE, meta |-> FALSE])

\* The first byte is plain and starts the character ch: the call returns the
\* plain key of ch and has consumed the bytes of ch
PlainCharCalls ==
    (last.op = "parse_event" /\ PlainByte(last.first)) =>
        \A ch \in CharsAt(last.start - 1) :
            last.res = OkEvent(CharKey(ch, FALSE), last.start - 1 + Len(encode_utf8(ch)))

\* ESC and then the character ch: the call returns the key of ch with alt
AltCharCall(ch) ==
    last.res = OkEvent(CharKey(ch, TRUE), last.start + Len(encode_utf8(ch)))

C37_EscOIsSs3 ==
    /\ EscCall
    /\ Answer(0) = 79
    /\ Answer(1) = 80
    /\ last.res = OkEvent(key_helper({}, Key("F", 1)), After(2))

-----------------------------------------------------------------------------
(* C38 *)

\* The last call of the log was a disable_raw_mode that returned Ok
DisableSucceeded ==
    /\ calls # <<>>
    /\ calls[Len(calls)].fn = "disable_raw_mode"
    /\ calls[Len(calls)].ok

\* The attributes stdin had before the first call of either function
OriginalAttrs == calls[1].arg

\* The original attributes are captured once, at the first call of either
\* function, and a disable that succeeded has restored them
RestoresOriginal ==
    /\ DisableSucceeded => stdin_attrs = OriginalAttrs
    /\ (calls = <<>>) <=> (TERMIOS = Uninit)
    /\ (calls # <<>> /\ TERMIOS.kind = "Ok") => TERMIOS.termios = OriginalAttrs

\* C38: after any sequence of enable_raw_mode and disable_raw_mode calls that
\* ends with a successful disable_raw_mode, the attributes of stdin equal the
\* attributes it had before the first of those calls: the original attributes
\* are captured once, at the first call of either function, and every disable
\* restores exactly that captured value.
C38_DisableRestoresOriginal == RestoresOriginal

\* The same in a build for Linux, where Termios holds the whole C struct
C38_RestoresOnLinux == target_os = "linux" => RestoresOriginal

\* In every build the flags come back, and the capture happens once
C38_FlagsRestored ==
    /\ DisableSucceeded => stdin_attrs.flags = OriginalAttrs.flags
    /\ (calls = <<>>) <=> (TERMIOS = Uninit)
    /\ (calls # <<>> /\ TERMIOS.kind = "Ok") => TERMIOS.termios.flags = OriginalAttrs.flags

\* macOS: enable then disable, both successful; the flags are those of before
\* the first call, the speed is not
C38_MacosRestLost ==
    /\ target_os = "macos"
    /\ Len(calls) = 2
    /\ calls[1].fn = "enable_raw_mode" /\ calls[1].ok
    /\ DisableSucceeded
    /\ calls[1].arg = [flags |-> {"ICRNL", "OPOST", "ECHO", "ICANON"}, rest |-> "B38400"]
    /\ stdin_attrs = [flags |-> {"ICRNL", "OPOST", "ECHO", "ICANON"}, rest |-> "B9600"]

\* Linux: enable, enable, disable, all successful, on a terminal that echoes
\* and is in canonical mode: the second enable found the terminal raw, and the
\* disable brought back the attributes of before the first call
C38_LinuxRestored ==
    /\ target_os = "linux"
    /\ Len(calls) = 3
    /\ calls[1].fn = "enable_raw_mode" /\ calls[1].ok
    /\ calls[2].fn = "enable_raw_mode" /\ calls[2].ok
    /\ calls[2].arg = [flags |-> {"CS8"}, rest |-> "B38400"]
    /\ DisableSucceeded
    /\ stdin_attrs = [flags |-> {"ICRNL", "OPOST", "ECHO", "ICANON"}, rest |-> "B38400"]
    /\ stdin_attrs = OriginalAttrs

====
